---- MODULE Spec2Model ----
(***************************************************************************)
(* Forecast engine of the inventory dashboard: useProductForecast (the     *)
(* hook in hooks/useSheetData.ts) and the criticalPoint scan of            *)
(* ProductGraph.tsx.                                                       *)
(*                                                                         *)
(* Conventions of the model                                                *)
(*  - A JavaScript Date at local midnight is its day number (days since    *)
(*    1970-01-01); Date|null is the sequence <<n>> or <<>>.                *)
(*  - A date cell text is a record [kind, d, m, y]: kind "dmy" is the text *)
(*    d<sep>m<sep>y with sep one of / . - , kind "empty" is "", kind       *)
(*    "text" is any text without a parseable date.                         *)
(*  - number|null is a record [k, v]: k = "null", "num" or "nan".          *)
(*  - A rate (units/day) is the exact fraction [n, d] with d > 0; d = 0 is *)
(*    NaN (0/0).  IEEE rounding error of the doubles is not modelled.      *)
(*  - A chart point carries, next to the fields of ForecastPoint, the day  *)
(*    number `day` of the Date its label was formatted from.               *)
(*  - The orders and products sheets are the sequences of their rows      *)
(*    below the header row; the text of a log cell is a sequence of        *)
(*    tokens (date-time stamp, ":", " ", "|", a directional mark, a word). *)
(*  - The views, the date parsers, the zoom of the chart and the Apps      *)
(*    Script each have their own specification over the same variables.    *)
(***************************************************************************)
EXTENDS Integers, Sequences, FiniteSets, TLC

\* ------------------------------------------------------------------------
\* Bounds of the model
\* ------------------------------------------------------------------------
MaxHist == 3
MaxOrders == 2

\* ------------------------------------------------------------------------
\* JavaScript Date arithmetic (proleptic Gregorian calendar, local time)
\* ------------------------------------------------------------------------

\* new Date(year, monthIndex, day): monthIndex and day may overflow
DaysFromCivil(year, monthIndex, day) ==
  LET yy  == year + (monthIndex \div 12)
      mm  == (monthIndex % 12) + 1
      y   == IF mm <= 2 THEN yy - 1 ELSE yy
      era == y \div 400
      yoe == y - era * 400
      mp  == IF mm > 2 THEN mm - 3 ELSE mm + 9
      doy == ((153 * mp + 2) \div 5)
      doe == yoe * 365 + (yoe \div 4) - (yoe \div 100) + doy
  IN  era * 146097 + doe - 719468 + (day - 1)

\* the civil fields [y, m, d] of a day number; m is getMonth() + 1
CivilFromDays(n) ==
  LET z   == n + 719468
      era == z \div 146097
      doe == z - era * 146097
      yoe == (doe - (doe \div 1460) + (doe \div 36524) - (doe \div 146096)) \div 365
      doy == doe - (365 * yoe + (yoe \div 4) - (yoe \div 100))
      mp  == (5 * doy + 2) \div 153
      dd  == doy - ((153 * mp + 2) \div 5) + 1
      mm  == IF mp < 10 THEN mp + 3 ELSE mp - 9
  IN  [y |-> yoe + era * 400 + (IF mm <= 2 THEN 1 ELSE 0), m |-> mm, d |-> dd]

\* d.setMonth(d.getMonth() + k)
SetMonthPlus(n, k) ==
  LET c == CivilFromDays(n) IN DaysFromCivil(c.y, (c.m - 1) + k, c.d)

\* d.setDate(d.getDate() + k)
SetDatePlus(n, k) == n + k

\* ------------------------------------------------------------------------
\* Date cell texts
\* ------------------------------------------------------------------------
Dmy(d, m, y) == [kind |-> "dmy", d |-> d, m |-> m, y |-> y]
\* "DD-MM-YYYY"
DmyDash(d, m, y) == [kind |-> "dashed", d |-> d, m |-> m, y |-> y]
EmptyText == [kind |-> "empty", d |-> 0, m |-> 0, y |-> 0]
JunkText == [kind |-> "text", d |-> 0, m |-> 0, y |-> 0]

NoDate == <<>>
IsDate(x) == x /= <<>>

parseDate(dateStr) ==
  IF dateStr.kind \in {"dmy", "dashed"}
    THEN LET fullYear == IF dateStr.y < 100 THEN 2000 + dateStr.y ELSE dateStr.y
         IN  <<DaysFromCivil(fullYear, dateStr.m - 1, dateStr.d)>>
    ELSE NoDate

\* "DD/MM": the pair of getDate() and getMonth() + 1
formatDateShort(n) == LET c == CivilFromDays(n) IN <<c.d, c.m>>

\* ------------------------------------------------------------------------
\* number | null, and rates
\* ------------------------------------------------------------------------
Null == [k |-> "null", v |-> 0]
NaN == [k |-> "nan", v |-> 0]
Num(v) == [k |-> "num", v |-> v]

ZeroRate == [n |-> 0, d |-> 1]
IsNaNRate(r) == r.d = 0

\* Math.max(0, Math.round(num / den)); Math.round is floor(x + 0.5)
MaxZeroRound(num, den) ==
  IF den = 0 THEN NaN
  ELSE LET r == (2 * num + den) \div (2 * den)
       IN  Num(IF r > 0 THEN r ELSE 0)

\* ------------------------------------------------------------------------
\* History pipeline (filter by sku, parse, sort, deduplicate)
\* ------------------------------------------------------------------------
RECURSIVE ParsedHistory(_, _)
ParsedHistory(history, sku) ==
  IF history = <<>> THEN <<>>
  ELSE LET h    == Head(history)
           rest == ParsedHistory(Tail(history), sku)
           dobj == parseDate(h.date)
       IN  IF h.sku = sku /\ IsDate(dobj)
             THEN <<[date |-> h.date, sku |-> h.sku, quantity |-> h.quantity,
                     dateObj |-> dobj[1]]>> \o rest
             ELSE rest

\* Array.prototype.sort with (a, b) => a.dateObj - b.dateObj (stable)
RECURSIVE InsertByDateObj(_, _)
InsertByDateObj(s, x) ==
  IF s = <<>> THEN <<x>>
  ELSE IF s[Len(s)].dateObj <= x.dateObj THEN Append(s, x)
  ELSE Append(InsertByDateObj(SubSeq(s, 1, Len(s) - 1), x), s[Len(s)])

RECURSIVE SortByDateObj(_)
SortByDateObj(s) ==
  IF s = <<>> THEN <<>>
  ELSE InsertByDateObj(SortByDateObj(SubSeq(s, 1, Len(s) - 1)), s[Len(s)])

\* faulty variant of DedupKeep: && in place of ||
DedupKeepBoth(arr, i) ==
  \/ i = 1
  \/ /\ formatDateShort(arr[i].dateObj) /= formatDateShort(arr[i - 1].dateObj)
     /\ arr[i].quantity /= arr[i - 1].quantity

\* faulty variant of DedupKeep: nothing is dropped
DedupKeepAll(arr, i) == TRUE

\* the predicate of the last .filter((h, i, arr) => ...)
DedupKeep(arr, i) ==
  \/ i = 1
  \/ formatDateShort(arr[i].dateObj) /= formatDateShort(arr[i - 1].dateObj)
  \/ arr[i].quantity /= arr[i - 1].quantity

RECURSIVE DedupUpTo(_, _)
DedupUpTo(arr, i) ==
  IF i = 0 THEN <<>>
  ELSE IF DedupKeep(arr, i) THEN Append(DedupUpTo(arr, i - 1), arr[i])
  ELSE DedupUpTo(arr, i - 1)

DedupFilter(arr) == DedupUpTo(arr, Len(arr))

SkuHistoryOf(history, sku) == DedupFilter(SortByDateObj(ParsedHistory(history, sku)))

\* ------------------------------------------------------------------------
\* Linear regression of quantity against days since the first sample
\* ------------------------------------------------------------------------
RECURSIVE SumOver(_, _, _)
SumOver(skuHistory, i, kind) ==
  IF i = 0 THEN 0
  ELSE LET px == skuHistory[i].dateObj - skuHistory[1].dateObj
           py == skuHistory[i].quantity
           term == CASE kind = "x"  -> px
                     [] kind = "y"  -> py
                     [] kind = "xy" -> px * py
                     [] OTHER       -> px * px
       IN  term + SumOver(skuHistory, i - 1, kind)

RegressionSlope(skuHistory) ==
  LET n     == Len(skuHistory)
      sumX  == SumOver(skuHistory, n, "x")
      sumY  == SumOver(skuHistory, n, "y")
      sumXY == SumOver(skuHistory, n, "xy")
      sumX2 == SumOver(skuHistory, n, "x2")
  IN  [n |-> n * sumXY - sumX * sumY, d |-> n * sumX2 - sumX * sumX]


\* ------------------------------------------------------------------------
\* Open orders of the sku with a resolved expected date
\* ------------------------------------------------------------------------
\* "<ken>" is the Hebrew word for yes and "<check>" the check mark U+2713
RECEIVED_VALUES == {"<ken>", "v", "<check>", "true", "yes"}

\* (o.received || "").toString().trim().toLowerCase(), on the texts of the model
TrimLower(s) ==
  CASE s = " V "  -> "v"
    [] s = "Yes"  -> "yes"
    [] s = "TRUE" -> "true"
    [] OTHER      -> s

IsReceived(o) == TrimLower(o.received) \in RECEIVED_VALUES

\* parseInt(o.quantity, 10) || 0 : a quantity text is [digits, v], the decimal
\* text of v when digits, and a text without leading digits otherwise
ParseQty(q) == IF q.digits THEN q.v ELSE 0

\* faulty variant of ResolveExpected: an order without any date is dated at
\* the epoch, as a null compares in JavaScript
ResolveExpectedEpoch(o) ==
  LET expectedDate == parseDate(o.expectedDate)
      orderDate    == parseDate(o.orderDate)
  IN  IF IsDate(expectedDate) THEN expectedDate
      ELSE IF IsDate(orderDate) THEN <<SetMonthPlus(orderDate[1], 3)>>
      ELSE <<0>>

\* expected date, or order date + 3 months, or null
ResolveExpected(o) ==
  LET expectedDate == parseDate(o.expectedDate)
      orderDate    == parseDate(o.orderDate)
  IN  IF IsDate(expectedDate) THEN expectedDate
      ELSE IF IsDate(orderDate) THEN <<SetMonthPlus(orderDate[1], 3)>>
      ELSE NoDate

RECURSIVE MappedOrders(_, _)
MappedOrders(orders, sku) ==
  IF orders = <<>> THEN <<>>
  ELSE LET o    == Head(orders)
           rest == MappedOrders(Tail(orders), sku)
           exp  == ResolveExpected(o)
       IN  IF o.dermaSku = sku /\ ~IsReceived(o) /\ IsDate(exp)
             THEN <<[qty |-> ParseQty(o.quantity), expectedDate |-> exp[1]]>> \o rest
             ELSE rest

\* Array.prototype.sort with (a, b) => a.expectedDate - b.expectedDate (stable)
RECURSIVE InsertByExpected(_, _)
InsertByExpected(s, x) ==
  IF s = <<>> THEN <<x>>
  ELSE IF s[Len(s)].expectedDate <= x.expectedDate THEN Append(s, x)
  ELSE Append(InsertByExpected(SubSeq(s, 1, Len(s) - 1), x), s[Len(s)])

RECURSIVE SortByExpected(_)
SortByExpected(s) ==
  IF s = <<>> THEN <<>>
  ELSE InsertByExpected(SortByExpected(SubSeq(s, 1, Len(s) - 1)), s[Len(s)])

SkuOrdersOf(orders, sku) == SortByExpected(MappedOrders(orders, sku))

\* for (const order of skuOrders) if (order.expectedDate <= forecastStart) overdueQty += order.qty
RECURSIVE OverdueQty(_, _)
OverdueQty(skuOrders, forecastStart) ==
  IF skuOrders = <<>> THEN 0
  ELSE (IF Head(skuOrders).expectedDate <= forecastStart THEN Head(skuOrders).qty ELSE 0)
       + OverdueQty(Tail(skuOrders), forecastStart)


\* ------------------------------------------------------------------------
\* useProductForecast
\* ------------------------------------------------------------------------
HorizonSteps == 26
StepDays == 7
MinRateDays == 180

\* minAmountData.find((m) => m.sku === sku): the first entry of the sku
RECURSIVE FindMinAmount(_, _)
FindMinAmount(minAmountData, sku) ==
  IF minAmountData = <<>> THEN Null
  ELSE IF Head(minAmountData).sku = sku THEN Num(Head(minAmountData).minAmount)
  ELSE FindMinAmount(Tail(minAmountData), sku)

\* minRate = -(minAmount / 180)
MinRateOf(minAmount) ==
  IF minAmount = Null THEN ZeroRate ELSE [n |-> 0 - minAmount.v, d |-> MinRateDays]

\* faulty variant of ForecastSlopeOf: the regression slope is always used
ForecastSlopeRegression(minAmount, minRate, slope) == slope

\* forecastSlope = minAmount !== null ? minRate : slope
ForecastSlopeOf(minAmount, minRate, slope) ==
  IF minAmount /= Null THEN minRate ELSE slope

\* faulty variant of FutureDate: 15-day steps
FutureDateFortnight(forecastStart, i) == SetDatePlus(forecastStart, i * 15)

\* futureDate.setDate(futureDate.getDate() + i * 7)
FutureDate(forecastStart, i) == SetDatePlus(forecastStart, i * StepDays)

\* faulty variant of ArrivesInStep: the interval is closed on both sides
ArrivesInStepClosed(expectedDate, prevDate, futureDate) ==
  expectedDate >= prevDate /\ expectedDate <= futureDate

\* order.expectedDate > prevDate && order.expectedDate <= futureDate
ArrivesInStep(expectedDate, prevDate, futureDate) ==
  expectedDate > prevDate /\ expectedDate <= futureDate

RECURSIVE ArrivalsInStep(_, _, _)
ArrivalsInStep(skuOrders, prevDate, futureDate) ==
  IF skuOrders = <<>> THEN 0
  ELSE (IF ArrivesInStep(Head(skuOrders).expectedDate, prevDate, futureDate)
          THEN Head(skuOrders).qty ELSE 0)
       + ArrivalsInStep(Tail(skuOrders), prevDate, futureDate)

\* faulty variant of OnTheWayValue: the value is set whether or not orders exist
OnTheWayAlways(hasOrders, num, den) == MaxZeroRound(num, den)

\* onTheWay: hasOrders ? Math.max(0, Math.round(runningWithOrders)) : null
OnTheWayValue(hasOrders, num, den) ==
  IF hasOrders THEN MaxZeroRound(num, den) ELSE Null

\* iterations i..26 of the for loop, entered with the running values of
\* iteration i - 1; the running values are numerators over the denominator
\* den of forecastSlope
RECURSIVE ForecastLoop(_, _, _, _, _, _, _)
ForecastLoop(i, runningForecast, runningWithOrders, forecastStart, forecastSlope, skuOrders, minAmount) ==
  IF i > HorizonSteps THEN <<>>
  ELSE LET den        == forecastSlope.d
           prevDate   == FutureDate(forecastStart, i - 1)
           futureDate == FutureDate(forecastStart, i)
           nextForecast   == runningForecast + forecastSlope.n * StepDays
           nextWithOrders == runningWithOrders + forecastSlope.n * StepDays
                             + den * ArrivalsInStep(skuOrders, prevDate, futureDate)
       IN  <<[date     |-> formatDateShort(futureDate),
              day      |-> futureDate,
              quantity |-> Null,
              forecast |-> MaxZeroRound(nextForecast, den),
              onTheWay |-> OnTheWayValue(Len(skuOrders) > 0, nextWithOrders, den),
              minAmount |-> minAmount]>>
           \o ForecastLoop(i + 1, nextForecast, nextWithOrders, forecastStart,
                           forecastSlope, skuOrders, minAmount)

\* let runningForecast = startQty; let runningWithOrders = startQty; for (...)
FuturePoints(forecastStart, startQty, forecastSlope, skuOrders, minAmount) ==
  ForecastLoop(1, startQty * forecastSlope.d, startQty * forecastSlope.d,
               forecastStart, forecastSlope, skuOrders, minAmount)

\* faulty variant of HistoryPoints: every historical point carries currentStock
HistoryPointsAllAnchored(skuHistory, currentStock, minAmount) ==
  [i \in 1..Len(skuHistory) |->
    [date     |-> formatDateShort(skuHistory[i].dateObj),
     day      |-> skuHistory[i].dateObj,
     quantity |-> Num(skuHistory[i].quantity),
     forecast |-> Num(currentStock),
     onTheWay |-> Null,
     minAmount |-> minAmount]]

\* chartData = skuHistory.map(...)
HistoryPoints(skuHistory, currentStock, minAmount) ==
  [i \in 1..Len(skuHistory) |->
    [date     |-> formatDateShort(skuHistory[i].dateObj),
     day      |-> skuHistory[i].dateObj,
     quantity |-> Num(skuHistory[i].quantity),
     forecast |-> IF i = Len(skuHistory) THEN Num(currentStock) ELSE Null,
     onTheWay |-> Null,
     minAmount |-> minAmount]]

\* the transition point pushed when the last history date is not today
TodayPoint(today, currentStock, minAmount) ==
  [date |-> formatDateShort(today), day |-> today, quantity |-> Null,
   forecast |-> Num(currentStock), onTheWay |-> Null, minAmount |-> minAmount]

\* chartData.find((p) => p.date === todayLabel && p.forecast !== null), as an
\* index (0 when nothing is found)
RECURSIVE FindTodayPoint(_, _, _)
FindTodayPoint(chartData, todayLabel, i) ==
  IF i > Len(chartData) THEN 0
  ELSE IF chartData[i].date = todayLabel /\ chartData[i].forecast /= Null THEN i
  ELSE FindTodayPoint(chartData, todayLabel, i + 1)

\* todayPoint.forecast = startQty; if (skuOrders.length > 0) todayPoint.onTheWay = startQty
FoldOverdue(chartData, idx, startQty, hasOrders) ==
  IF idx = 0 THEN chartData
  ELSE [chartData EXCEPT ![idx] =
         [@ EXCEPT !.forecast = Num(startQty),
                   !.onTheWay = IF hasOrders THEN Num(startQty) ELSE @]]

\* forecastStart = today > lastDate ? today : lastDate
ForecastStartOf(today, lastDate) == IF today > lastDate THEN today ELSE lastDate

\* faulty variant of EmptyResult: minRate is left at 0
EmptyResultZeroMinRate(minAmount) ==
  [chartData |-> <<>>, declineRate |-> ZeroRate, minAmount |-> minAmount,
   realRate |-> ZeroRate, minRate |-> ZeroRate, skuHistory |-> <<>>,
   skuOrders |-> <<>>]

EmptyResult(minAmount) ==
  [chartData |-> <<>>, declineRate |-> ZeroRate, minAmount |-> minAmount,
   realRate |-> ZeroRate, minRate |-> MinRateOf(minAmount), skuHistory |-> <<>>,
   skuOrders |-> <<>>]

\* branch skuHistory.length >= 2
WithHistory(sku, currentStock, skuHistory, skuOrders, minAmount, today) ==
  LET slope         == RegressionSlope(skuHistory)
      minRate       == MinRateOf(minAmount)
      forecastSlope == ForecastSlopeOf(minAmount, minRate, slope)
      lastDate      == skuHistory[Len(skuHistory)].dateObj
      hist          == HistoryPoints(skuHistory, currentStock, minAmount)
      withToday     == IF lastDate /= today
                         THEN Append(hist, TodayPoint(today, currentStock, minAmount))
                         ELSE hist
      forecastStart == ForecastStartOf(today, lastDate)
      startQty      == currentStock + OverdueQty(skuOrders, forecastStart)
      todayIdx      == FindTodayPoint(withToday, formatDateShort(today), 1)
      folded        == FoldOverdue(withToday, todayIdx, startQty, Len(skuOrders) > 0)
  IN  [chartData   |-> folded \o FuturePoints(forecastStart, startQty, forecastSlope,
                                              skuOrders, minAmount),
       declineRate |-> forecastSlope,
       minAmount   |-> minAmount,
       realRate    |-> slope,
       minRate     |-> minRate,
       skuHistory  |-> skuHistory,
       skuOrders   |-> skuOrders]

\* branch currentStock > 0 with fewer than 2 samples
WithoutHistory(sku, currentStock, skuHistory, skuOrders, minAmount, today) ==
  LET minRate       == MinRateOf(minAmount)
      forecastSlope == ForecastSlopeOf(minAmount, minRate, ZeroRate)
      first         == [date |-> formatDateShort(today), day |-> today,
                        quantity |-> Num(currentStock), forecast |-> Num(currentStock),
                        onTheWay |-> Null, minAmount |-> minAmount]
      startQty      == currentStock + OverdueQty(skuOrders, today)
      folded        == FoldOverdue(<<first>>, 1, startQty, Len(skuOrders) > 0)
  IN  [chartData   |-> folded \o FuturePoints(today, startQty, forecastSlope,
                                              skuOrders, minAmount),
       declineRate |-> forecastSlope,
       minAmount   |-> minAmount,
       realRate    |-> ZeroRate,
       minRate     |-> minRate,
       skuHistory  |-> skuHistory,
       skuOrders   |-> skuOrders]

\* the hook; history, orders and minAmountData are query results [loaded, data]
useProductForecast(sku, currentStock, history, orders, minAmountData, today) ==
  LET minAmount == IF minAmountData.loaded THEN FindMinAmount(minAmountData.data, sku)
                   ELSE Null
  IN  IF history.loaded /\ orders.loaded
        THEN LET skuHistory == SkuHistoryOf(history.data, sku)
                 skuOrders  == SkuOrdersOf(orders.data, sku)
             IN  IF Len(skuHistory) >= 2
                   THEN WithHistory(sku, currentStock, skuHistory, skuOrders, minAmount, today)
                 ELSE IF currentStock > 0
                   THEN WithoutHistory(sku, currentStock, skuHistory, skuOrders, minAmount, today)
                 ELSE [EmptyResult(minAmount) EXCEPT !.skuHistory = skuHistory]
        ELSE EmptyResult(minAmount)


\* ------------------------------------------------------------------------
\* criticalPoint (ProductGraph): the index in chartData of the returned
\* point, 0 for null
\* ------------------------------------------------------------------------

\* chartData.filter(p => p.quantity === null), as indices of chartData
RECURSIVE ForecastPointsUpTo(_, _)
ForecastPointsUpTo(chartData, i) ==
  IF i = 0 THEN <<>>
  ELSE IF chartData[i].quantity = Null
         THEN Append(ForecastPointsUpTo(chartData, i - 1), i)
  ELSE ForecastPointsUpTo(chartData, i - 1)

ForecastPoints(chartData) == ForecastPointsUpTo(chartData, Len(chartData))

\* p.onTheWay ?? p.forecast
ValueOf(p) == IF p.onTheWay /= Null THEN p.onTheWay ELSE p.forecast

\* faulty variant of AtOrBelow: strict comparison
AtOrBelowStrict(value, minAmount) == value.k = "num" /\ value.v < minAmount

\* value !== null && value !== undefined && value <= minAmount
AtOrBelow(value, minAmount) == value.k = "num" /\ value.v <= minAmount

\* value !== null && value !== undefined && value > minAmount
Above(value, minAmount) == value.k = "num" /\ value.v > minAmount

\* faulty variant of LastAboveIndex: no point is ever recorded as above
LastAboveIndexNone(chartData, forecastPoints, minAmount, i) == 0

\* the loop setting lastAboveIndex, over positions 1..i of forecastPoints
\* (0 stands for the code's -1)
RECURSIVE LastAboveIndex(_, _, _, _)
LastAboveIndex(chartData, forecastPoints, minAmount, i) ==
  IF i = 0 THEN 0
  ELSE IF Above(ValueOf(chartData[forecastPoints[i]]), minAmount) THEN i
  ELSE LastAboveIndex(chartData, forecastPoints, minAmount, i - 1)

\* first position >= i of forecastPoints whose value is <= minAmount
RECURSIVE FirstBelowFrom(_, _, _, _, _)
FirstBelowFrom(chartData, forecastPoints, minAmount, i, withOrders) ==
  IF i > Len(forecastPoints) THEN 0
  ELSE LET p == chartData[forecastPoints[i]]
           value == IF withOrders THEN ValueOf(p) ELSE p.forecast
       IN  IF AtOrBelow(value, minAmount) THEN forecastPoints[i]
           ELSE FirstBelowFrom(chartData, forecastPoints, minAmount, i + 1, withOrders)

CriticalPointOf(chartData, minAmount) ==
  IF minAmount = Null THEN 0
  ELSE LET hasOrders      == \E i \in 1..Len(chartData) : chartData[i].onTheWay /= Null
           forecastPoints == ForecastPoints(chartData)
           lastAboveIndex == LastAboveIndex(chartData, forecastPoints, minAmount.v,
                                            Len(forecastPoints))
       IN  IF ~hasOrders
             THEN FirstBelowFrom(chartData, forecastPoints, minAmount.v, 1, FALSE)
           ELSE FirstBelowFrom(chartData, forecastPoints, minAmount.v,
                               lastAboveIndex + 1, TRUE)

\* ------------------------------------------------------------------------
\* Fetchers (googleSheets): rows of the sheets to items
\* ------------------------------------------------------------------------

\* parseInt(cell ?? "0", 10) || 0, on a quantity text [digits, v]
ParseCell(q) == IF q.digits THEN q.v ELSE 0

RawHistoryRow(sku, quantity, date) == [sku |-> sku, quantity |-> quantity, date |-> date]

\* fetchHistory: rows with a sku, mapped, with a date
RECURSIVE fetchHistory(_)
fetchHistory(raw) ==
  IF raw = <<>> THEN <<>>
  ELSE LET row  == Head(raw)
           rest == fetchHistory(Tail(raw))
       IN  IF row.sku /= "" /\ row.date.kind /= "empty"
             THEN <<[sku |-> row.sku, quantity |-> ParseCell(row.quantity),
                     date |-> row.date]>> \o rest
             ELSE rest

RawProductRow(name, sku, warehouseQty) ==
  [name |-> name, sku |-> sku, warehouseQty |-> warehouseQty]

\* fetchProducts: rows with a sku, mapped
RECURSIVE fetchProducts(_)
fetchProducts(raw) ==
  IF raw = <<>> THEN <<>>
  ELSE LET row  == Head(raw)
           rest == fetchProducts(Tail(raw))
       IN  IF row.sku /= ""
             THEN <<[name |-> row.name, sku |-> row.sku,
                     warehouseQty |-> ParseCell(row.warehouseQty)]>> \o rest
             ELSE rest

\* ------------------------------------------------------------------------
\* useOpenOrders and the OpenOrders view
\* ------------------------------------------------------------------------

\* the filter of useOpenOrders, with its own list of received values
OpenOrdersKeeps(order) ==
  TrimLower(order.received) \notin {"<ken>", "v", "<check>", "true", "yes"}

useOpenOrders(orders) ==
  IF orders.loaded THEN SelectSeq(orders.data, OpenOrdersKeeps) ELSE <<>>

\* parseDate of OpenOrders.tsx: split on "." and "/" only, no validity test
parseDateOpenOrders(dateStr) ==
  IF dateStr.kind = "dmy"
    THEN LET year == IF dateStr.y < 100 THEN dateStr.y + 2000 ELSE dateStr.y
         IN  <<DaysFromCivil(year, dateStr.m - 1, dateStr.d)>>
    ELSE NoDate

addMonths(date, months) == SetMonthPlus(date, months)

getExpectedDate(order) ==
  LET parsed    == IF order.expectedDate.kind /= "empty"
                     THEN parseDateOpenOrders(order.expectedDate) ELSE NoDate
      orderDate == parseDateOpenOrders(order.orderDate)
  IN  IF IsDate(parsed) THEN [date |-> parsed, estimated |-> FALSE]
      ELSE IF IsDate(orderDate)
        THEN [date |-> <<addMonths(orderDate[1], 3)>>, estimated |-> TRUE]
      ELSE [date |-> NoDate, estimated |-> FALSE]

\* ------------------------------------------------------------------------
\* useInventoryOverview
\* ------------------------------------------------------------------------

\* faulty variant of OverviewCounts: the received text is compared as it is
OverviewCountsExact(order) ==
  /\ order.received \notin {"<ken>", "v", "<check>", "true", "yes"}
  /\ order.dermaSku /= ""

\* the test of the loop over orders, with its own list of received values
OverviewCounts(order) ==
  /\ TrimLower(order.received) \notin {"<ken>", "v", "<check>", "true", "yes"}
  /\ order.dermaSku /= ""

\* onTheWayMap.get(sku) ?? 0 after the loop
RECURSIVE onTheWayMap(_, _)
onTheWayMap(orders, sku) ==
  IF orders = <<>> THEN 0
  ELSE (IF OverviewCounts(Head(orders)) /\ Head(orders).dermaSku = sku
          THEN ParseQty(Head(orders).quantity) ELSE 0)
       + onTheWayMap(Tail(orders), sku)

RECURSIVE OverviewItems(_, _)
OverviewItems(products, orders) ==
  IF products = <<>> THEN <<>>
  ELSE LET product == Head(products)
           item    == [productName |-> product.name, sku |-> product.sku,
                       currentStock |-> product.warehouseQty,
                       onTheWay |-> onTheWayMap(orders, product.sku)]
           rest    == OverviewItems(Tail(products), orders)
       IN  IF item.currentStock > 0 \/ item.onTheWay > 0 THEN <<item>> \o rest ELSE rest

useInventoryOverview(products, orders) ==
  IF products.loaded /\ orders.loaded THEN OverviewItems(products.data, orders.data)
  ELSE <<>>

\* ------------------------------------------------------------------------
\* minAmountMap of AddOrderDialog: a Map as the sequence of its entries
\* ------------------------------------------------------------------------

\* map.set(key, value)
MapSet(map, key, value) ==
  IF \E i \in 1..Len(map) : map[i].key = key
    THEN [i \in 1..Len(map) |->
           IF map[i].key = key THEN [key |-> key, value |-> value] ELSE map[i]]
  ELSE Append(map, [key |-> key, value |-> value])

\* map.get(key), Null when absent
MapGet(map, key) ==
  IF \E i \in 1..Len(map) : map[i].key = key
    THEN Num((CHOOSE e \in {map[i] : i \in 1..Len(map)} : e.key = key).value)
  ELSE Null

RECURSIVE MinAmountMapUpTo(_, _)
MinAmountMapUpTo(data, i) ==
  IF i = 0 THEN <<>>
  ELSE MapSet(MinAmountMapUpTo(data, i - 1), data[i].sku, data[i].minAmount)

MinAmountMapOf(minAmountData) ==
  IF minAmountData.loaded THEN MinAmountMapUpTo(minAmountData.data, Len(minAmountData.data))
  ELSE <<>>

\* ------------------------------------------------------------------------
\* parseDateString of the fetchers
\* ------------------------------------------------------------------------
\* new Date(dateStr) on a text that is not ISO 8601 is left to the engine by
\* the language: a day/month/year text with a two-digit year is rejected, or
\* read as month/day/year when its first number can be a month
IsoFallbackOutcomes(dateStr) ==
  IF dateStr.kind \in {"dmy", "dashed"} /\ dateStr.y < 100
    THEN {NoDate} \cup
         (IF dateStr.d <= 12
            THEN {<<DaysFromCivil(2000 + dateStr.y, dateStr.d - 1, dateStr.m)>>}
            ELSE {})
    ELSE {NoDate}

\* the pattern needs a year of four digits; iso is the outcome of new Date(dateStr)
parseDateString(dateStr, iso) ==
  IF dateStr.kind \in {"dmy", "dashed"} /\ dateStr.y >= 1000 /\ dateStr.y <= 9999
    THEN <<DaysFromCivil(dateStr.y, dateStr.m - 1, dateStr.d)>>
    ELSE iso

\* ------------------------------------------------------------------------
\* Zoom window of ProductGraph
\* ------------------------------------------------------------------------
Min2(a, b) == IF a < b THEN a ELSE b

Larger(a, b) == IF a > b THEN a ELSE b

\* Math.max(1, Math.round(range * percent / 100))
ZoomStep(range, percent) == Larger(1, (range * percent + 50) \div 100)

ZoomRange(start, end) == [start |-> start, end |-> end]

\* the updater of zoomIn, with the step of the caller
ZoomedIn(prev, step) ==
  IF prev.end - prev.start < 3 THEN prev
  ELSE ZoomRange(Min2(prev.end - 2, prev.start + step), Larger(prev.start + 2, prev.end - step))

\* the updater of zoomOut, with the step of the caller
ZoomedOut(prev, step, maxEnd) ==
  ZoomRange(Larger(0, prev.start - step), Min2(maxEnd, prev.end + step))

\* the updater of panLeft
PannedLeft(prev) ==
  LET range    == prev.end - prev.start
      newStart == Larger(0, prev.start - ZoomStep(range, 20))
  IN  ZoomRange(newStart, newStart + range)

\* the updater of panRight
PannedRight(prev, maxEnd) ==
  LET range  == prev.end - prev.start
      newEnd == Min2(maxEnd, prev.end + ZoomStep(range, 20))
  IN  ZoomRange(newEnd - range, newEnd)

\* ------------------------------------------------------------------------
\* Inputs of the model
\* ------------------------------------------------------------------------
Sku == "A"
OtherSku == "B"

\* new Date() of the render, at local midnight: 10/03/2025
Todays == {DaysFromCivil(2025, 2, 10)}

HistoryItem(date, sku, quantity) == [date |-> date, sku |-> sku, quantity |-> quantity]

\* rows returned by fetchHistory: samples one year before today (same day and
\* month), one week before today (two-digit year), today and one week after
\* today
HistoryPool ==
  { HistoryItem(Dmy(10, 3, 2024), Sku, 100),
    HistoryItem(Dmy(10, 3, 2024), Sku, 86),
    HistoryItem(Dmy(3, 3, 25), Sku, 100),
    HistoryItem(Dmy(10, 3, 2025), Sku, 86),
    HistoryItem(Dmy(17, 3, 2025), Sku, 86) }

QtyText(v) == [digits |-> TRUE, v |-> v]
JunkQty == [digits |-> FALSE, v |-> 0]

Order(orderDate, dermaSku, quantity, received, expectedDate) ==
  [orderDate |-> orderDate, dermaSku |-> dermaSku, quantity |-> quantity,
   received |-> received, expectedDate |-> expectedDate]

\* rows returned by fetchOrders: overdue, due exactly two steps after today,
\* due three months after the order date (09/06/2025), open without any
\* parseable date, and received
OrderPool ==
  { Order(Dmy(1, 2, 2025), Sku, QtyText(30), "", Dmy(7, 3, 2025)),
    Order(Dmy(1, 2, 2025), Sku, QtyText(30), "no", Dmy(24, 3, 2025)),
    Order(Dmy(9, 3, 2025), Sku, QtyText(30), "", EmptyText),
    Order(JunkText, Sku, QtyText(30), "", EmptyText),
    Order(Dmy(1, 2, 2025), Sku, QtyText(30), " V ", Dmy(24, 3, 2025)) }

MinAmountItem(sku, minAmount) == [sku |-> sku, minAmount |-> minAmount]

Loaded(data) == [loaded |-> TRUE, data |-> data]
NotLoaded == [loaded |-> FALSE, data |-> <<>>]

RECURSIVE SeqsUpTo(_, _)
SeqsUpTo(S, n) ==
  IF n = 0 THEN {<<>>}
  ELSE LET shorter == SeqsUpTo(S, n - 1)
       IN  shorter \cup {Append(q, e) : q \in shorter, e \in S}

\* warehouseQty of the product
Stocks == {0, 50}

\* results of the minAmount query (fetchMinAmount keeps minAmount > 0)
MinAmountOne == Loaded(<<MinAmountItem(Sku, 40)>>)
MinAmountMany ==
  Loaded(<<MinAmountItem(OtherSku, 40), MinAmountItem(Sku, 180), MinAmountItem(Sku, 40)>>)

HistoriesRich == {Loaded(h) : h \in SeqsUpTo(HistoryPool, MaxHist)}
OrdersRich == {Loaded(o) : o \in SeqsUpTo(OrderPool, MaxOrders)}

\* two samples up to today; two samples before today; two samples of one past
\* day with the day and month of today; a last sample after today; a single usable sample after today
\* next to a row of another product and a row whose date does not parse; no
\* usable sample at all
HistoryUpToToday ==
  Loaded(<<HistoryItem(Dmy(10, 3, 2025), Sku, 86), HistoryItem(Dmy(3, 3, 25), Sku, 100)>>)
HistoriesFew ==
  { Loaded(<<>>),
    HistoryUpToToday,
    Loaded(<<HistoryItem(Dmy(10, 3, 2024), Sku, 86),
             HistoryItem(Dmy(3, 3, 25), Sku, 100)>>),
    Loaded(<<HistoryItem(Dmy(10, 3, 2024), Sku, 100),
             HistoryItem(Dmy(10, 3, 2024), Sku, 86)>>),
    Loaded(<<HistoryItem(Dmy(3, 3, 25), Sku, 100),
             HistoryItem(Dmy(17, 3, 2025), Sku, 86)>>),
    Loaded(<<HistoryItem(Dmy(3, 3, 25), OtherSku, 100),
             HistoryItem(JunkText, Sku, 100),
             HistoryItem(Dmy(17, 3, 2025), Sku, 86)>>),
    Loaded(<<HistoryItem(JunkText, Sku, 100),
             HistoryItem(Dmy(3, 3, 25), OtherSku, 100)>>) }

\* an order due within the first step with a quantity text that is no number,
\* after an order of another product
OrderInFirstStep ==
  Loaded(<<Order(Dmy(1, 2, 2025), OtherSku, QtyText(30), "", Dmy(7, 3, 2025)),
           Order(Dmy(1, 2, 2025), Sku, JunkQty, "", Dmy(12, 3, 2025))>>)
OrdersFew == {Loaded(<<>>), OrderInFirstStep}

\* the inputs of one render: many histories with few order lists, few
\* histories with many order lists, and the queries still loading
Inputs ==
  ([history : HistoriesRich, orders : OrdersFew,
    minAmountData : {Loaded(<<>>), MinAmountOne, MinAmountMany}])
  \cup
  ([history : HistoriesFew, orders : OrdersRich,
    minAmountData : {Loaded(<<>>), MinAmountOne}])
  \cup
  ([history : {NotLoaded, HistoryUpToToday}, orders : {NotLoaded, OrderInFirstStep},
    minAmountData : {NotLoaded, MinAmountOne}])

\* rows of the orders sheet as the views see them: a regular open order, a
\* received one, an open one without any parseable date, one whose expected
\* date is written with dashes, one ordered on 30/11/2024 with no expected
\* date and a negative quantity text, and a received row of another product
ViewOrderPool ==
  { Order(Dmy(1, 2, 2025), Sku, QtyText(30), "", Dmy(24, 3, 2025)),
    Order(Dmy(1, 2, 2025), Sku, QtyText(30), " V ", Dmy(24, 3, 2025)),
    Order(JunkText, Sku, QtyText(30), "no", EmptyText),
    Order(Dmy(1, 2, 2025), Sku, QtyText(20), "", DmyDash(24, 3, 2025)),
    Order(Dmy(30, 11, 2024), Sku, QtyText(0 - 5), "", EmptyText),
    Order(Dmy(1, 2, 2025), OtherSku, JunkQty, "TRUE", Dmy(7, 3, 2025)) }

ViewOrdersRich == {Loaded(o) : o \in SeqsUpTo(ViewOrderPool, MaxOrders)}
ViewOrdersFew ==
  { NotLoaded,
    Loaded(<<Order(JunkText, OtherSku, QtyText(30), "", EmptyText),
             Order(Dmy(1, 2, 2025), OtherSku, QtyText(30), "Yes", Dmy(24, 3, 2025))>>) }

\* rows of the history sheet: a negative quantity text, a row without sku and
\* a row without date; a quantity text that is no number
RawHistoryNegative ==
  << RawHistoryRow(Sku, QtyText(100), Dmy(3, 3, 25)),
     RawHistoryRow(Sku, QtyText(0 - 5), Dmy(10, 3, 2025)),
     RawHistoryRow("", QtyText(7), Dmy(10, 3, 2025)),
     RawHistoryRow(Sku, QtyText(7), EmptyText) >>
RawHistoryJunk ==
  << RawHistoryRow(Sku, JunkQty, Dmy(3, 3, 25)),
     RawHistoryRow(OtherSku, QtyText(86), Dmy(10, 3, 2025)) >>

\* rows of the products sheet
RawProductsPlain ==
  << RawProductRow("a", Sku, QtyText(50)),
     RawProductRow("b", OtherSku, JunkQty),
     RawProductRow("c", "", QtyText(3)) >>
RawProductsNegative ==
  << RawProductRow("a", Sku, QtyText(0 - 5)),
     RawProductRow("b", OtherSku, QtyText(0)) >>

\* the threshold rows of MinAmountMany with the rows of the sku exchanged
MinAmountManyReversed ==
  Loaded(<<MinAmountItem(Sku, 40), MinAmountItem(OtherSku, 40), MinAmountItem(Sku, 180)>>)

\* the inputs of the views: many order lists with one sheet content, few order
\* lists with every sheet content
ViewInputs ==
  ([orders : ViewOrdersRich, rawHistory : {RawHistoryNegative},
    rawProducts : {RawProductsPlain}, minAmountData : {MinAmountMany}])
  \cup
  ([orders : ViewOrdersFew, rawHistory : {RawHistoryNegative, RawHistoryJunk},
    rawProducts : {RawProductsPlain, RawProductsNegative},
    minAmountData : {MinAmountOne, MinAmountManyReversed}])

\* ------------------------------------------------------------------------
\* State
\* ------------------------------------------------------------------------
VARIABLES
  today,          \* new Date() at midnight
  sku,            \* props of ProductGraph
  currentStock,
  history,        \* useHistory()
  orders,         \* useOrders()
  minAmountData,  \* useMinAmount()
  rendered,       \* whether ProductGraph has rendered with these inputs
  chartData, declineRate, minAmount, realRate, minRate,  \* result of the hook
  skuHistory,     \* the deduplicated samples of the hook
  skuOrders,      \* the resolved open orders of the hook, sorted
  criticalPoint,  \* the useMemo of ProductGraph
  rawHistory,     \* rows of the history sheet
  rawProducts,    \* rows of the products sheet
  products,       \* useProducts()
  openOrders,     \* useOpenOrders().data in OpenOrders
  expectedDates,  \* getExpectedDate of each row of OpenOrders
  openOrdersRendered,
  overview,       \* useInventoryOverview().data
  overviewRendered,
  minAmountMap,   \* the useMemo of AddOrderDialog
  dialogRendered,
  calls,          \* the invocations of useProductForecast in flight, with their locals
  dateText,       \* a date cell text handed to the three parsers
  parsedBy,       \* the parsers that have run on it
  engineDate,     \* parseDate of the forecast engine
  normalizerDate, \* parseDateString of the fetchers
  viewDate,       \* parseDate of OpenOrders
  chartLength,    \* chartData.length in ProductGraph
  zoomRange,      \* the zoomRange state of ProductGraph
  zoomMounted,    \* whether the effect that resets the zoom has run
  ordersSheet,    \* rows of the orders sheet below the header row
  productsSheet,  \* rows of the products sheet below the header row
  ordersCache,    \* the ["orders"] query of the query client
  statusMutation, \* the mutation of useUpdateOrderStatus
  executions,     \* executions of updateOrderComments in the Apps Script
  lastRun,        \* the last write action the Apps Script has completed
  requests        \* the number of requests sent to the Apps Script

vars == <<today, sku, currentStock, history, orders, minAmountData, rendered,
          chartData, declineRate, minAmount, realRate, minRate, skuHistory,
          skuOrders, criticalPoint, rawHistory, rawProducts, products,
          openOrders, expectedDates, openOrdersRendered, overview,
          overviewRendered, minAmountMap, dialogRendered, calls,
          dateText, parsedBy, engineDate, normalizerDate, viewDate,
          chartLength, zoomRange, zoomMounted,
          ordersSheet, productsSheet, ordersCache, statusMutation, executions,
          lastRun, requests>>

parserVars == <<dateText, parsedBy, engineDate, normalizerDate, viewDate>>
zoomVars == <<chartLength, zoomRange, zoomMounted>>
sheetVars == <<ordersSheet, productsSheet, ordersCache, statusMutation, executions, lastRun,
               requests>>
extVars == <<parserVars, zoomVars, sheetVars>>

\* no date text is being parsed
ParserIdle ==
  /\ dateText = EmptyText
  /\ parsedBy = {}
  /\ engineDate = NoDate
  /\ normalizerDate = NoDate
  /\ viewDate = NoDate

\* useState({ start: 0, end: 0 }) of a chart without points
ZoomIdle ==
  /\ chartLength = 0
  /\ zoomRange = ZoomRange(0, 0)
  /\ zoomMounted = FALSE

\* no sheet is loaded and the Apps Script has not run
SheetIdle ==
  /\ ordersSheet = <<>>
  /\ productsSheet = <<>>
  /\ ordersCache = [fetcher |-> "fetchOrders", loaded |-> FALSE, stale |-> FALSE, data |-> <<>>]
  /\ statusMutation = [status |-> "idle"]
  /\ executions = <<>>
  /\ lastRun = [action |-> "none"]
  /\ requests = 0

inputVars == <<today, sku, currentStock, orders, minAmountData, rawHistory, rawProducts>>
graphVars == <<rendered, chartData, declineRate, minAmount, realRate, minRate, skuHistory, skuOrders, criticalPoint>>
listVars == <<openOrders, expectedDates, openOrdersRendered>>
overviewVars == <<overview, overviewRendered>>
dialogVars == <<minAmountMap, dialogRendered>>

\* nothing has rendered yet
NothingRendered ==
  /\ rendered = FALSE
  /\ chartData = <<>>
  /\ declineRate = ZeroRate
  /\ minAmount = Null
  /\ realRate = ZeroRate
  /\ minRate = ZeroRate
  /\ skuHistory = <<>>
  /\ skuOrders = <<>>
  /\ criticalPoint = 0
  /\ openOrders = <<>>
  /\ expectedDates = <<>>
  /\ openOrdersRendered = FALSE
  /\ overview = <<>>
  /\ overviewRendered = FALSE
  /\ minAmountMap = <<>>
  /\ dialogRendered = FALSE

Init ==
  /\ today \in Todays
  /\ sku = Sku
  /\ currentStock \in Stocks
  /\ \E in \in Inputs :
       /\ history = in.history
       /\ orders = in.orders
       /\ minAmountData = in.minAmountData
  /\ rawHistory = <<>>
  /\ rawProducts = <<>>
  /\ products = NotLoaded
  /\ calls = <<>>
  /\ NothingRendered
  /\ ParserIdle
  /\ ZoomIdle
  /\ SheetIdle

\* one render of ProductGraph: the hook, then the criticalPoint memo
Render ==
  /\ ~rendered
  /\ \E r \in {useProductForecast(sku, currentStock, history, orders, minAmountData, today)} :
         /\ chartData' = r.chartData
         /\ declineRate' = r.declineRate
         /\ minAmount' = r.minAmount
         /\ realRate' = r.realRate
         /\ minRate' = r.minRate
         /\ skuHistory' = r.skuHistory
         /\ skuOrders' = r.skuOrders
         /\ criticalPoint' = CriticalPointOf(r.chartData, r.minAmount)
  /\ rendered' = TRUE
  /\ UNCHANGED <<extVars, calls, inputVars, history, products, listVars, overviewVars, dialogVars>>

Next == Render

Spec == Init /\ [][Next]_vars

\* the dashboard before the history and products queries have answered
ViewsInit ==
  /\ today \in Todays
  /\ sku = Sku
  /\ currentStock = 50
  /\ \E in \in ViewInputs :
       /\ orders = in.orders
       /\ minAmountData = in.minAmountData
       /\ rawHistory = in.rawHistory
       /\ rawProducts = in.rawProducts
  /\ history = NotLoaded
  /\ products = NotLoaded
  /\ calls = <<>>
  /\ NothingRendered
  /\ ParserIdle
  /\ ZoomIdle
  /\ SheetIdle

\* the history query answers; ProductGraph is to render again
FetchHistory ==
  /\ ~history.loaded
  /\ history' = Loaded(fetchHistory(rawHistory))
  /\ rendered' = FALSE
  /\ UNCHANGED <<extVars, calls, inputVars, products, chartData, declineRate, minAmount, realRate,
                 minRate, skuHistory, skuOrders, criticalPoint, listVars,
                 overviewVars, dialogVars>>

\* the products query answers; the overview is to render again
FetchProducts ==
  /\ ~products.loaded
  /\ products' = Loaded(fetchProducts(rawProducts))
  /\ overviewRendered' = FALSE
  /\ UNCHANGED <<extVars, calls, inputVars, history, graphVars, listVars, overview, dialogVars>>

\* one render of OpenOrders: the hook, then getExpectedDate of each row
RenderOpenOrders ==
  /\ ~openOrdersRendered
  /\ \E open \in {useOpenOrders(orders)} :
       /\ openOrders' = open
       /\ expectedDates' = [i \in 1..Len(open) |-> getExpectedDate(open[i])]
  /\ openOrdersRendered' = TRUE
  /\ UNCHANGED <<extVars, calls, inputVars, history, products, graphVars, overviewVars, dialogVars>>

\* one render of the inventory overview
RenderOverview ==
  /\ ~overviewRendered
  /\ overview' = useInventoryOverview(products, orders)
  /\ overviewRendered' = TRUE
  /\ UNCHANGED <<extVars, calls, inputVars, history, products, graphVars, listVars, dialogVars>>

\* one render of AddOrderDialog: the minAmountMap memo
RenderAddOrderDialog ==
  /\ ~dialogRendered
  /\ minAmountMap' = MinAmountMapOf(minAmountData)
  /\ dialogRendered' = TRUE
  /\ UNCHANGED <<extVars, calls, inputVars, history, products, graphVars, listVars, overviewVars>>

ViewsNext ==
  \/ FetchHistory
  \/ FetchProducts
  \/ Render
  \/ RenderOpenOrders
  \/ RenderOverview
  \/ RenderAddOrderDialog

ViewsSpec == ViewsInit /\ [][ViewsNext]_vars

\* ------------------------------------------------------------------------
\* Several invocations of useProductForecast over the same query results
\* ------------------------------------------------------------------------
\* the history that two products share: two samples of each
SharedHistoryPool ==
  { HistoryItem(Dmy(3, 3, 25), Sku, 100),
    HistoryItem(Dmy(10, 3, 2025), Sku, 86),
    HistoryItem(Dmy(3, 3, 25), OtherSku, 20),
    HistoryItem(Dmy(24, 2, 2025), OtherSku, 60) }

SharedOrders ==
  Loaded(<<Order(Dmy(1, 2, 2025), Sku, QtyText(30), "", Dmy(24, 3, 2025)),
           Order(Dmy(1, 2, 2025), OtherSku, QtyText(10), "", Dmy(7, 3, 2025))>>)

SharedInputs ==
  ([history : {Loaded(h) : h \in SeqsUpTo(SharedHistoryPool, MaxHist)},
    orders : {Loaded(<<>>), SharedOrders}, minAmountData : {MinAmountMany}])
  \cup
  ([history : {NotLoaded}, orders : {SharedOrders}, minAmountData : {NotLoaded, MinAmountMany}])

\* the props of the two ProductGraph components on screen
CallProps == <<[sku |-> Sku, currentStock |-> 50], [sku |-> OtherSku, currentStock |-> 50]>>

\* the locals of an invocation as its let declarations leave them
FreshLocals(props, pc) ==
  [sku |-> props.sku, currentStock |-> props.currentStock, pc |-> pc,
   minAmount |-> Null, filtered |-> <<>>, mapped |-> <<>>, skuHistory |-> <<>>,
   skuOrders |-> <<>>, result |-> EmptyResult(Null)]

\* faulty variant of SpreadSource: the callback of map writes dateObj into its
\* argument
SpreadSourceAssigned(h) ==
  [date |-> h.date, sku |-> h.sku, quantity |-> h.quantity, dateObj |-> parseDate(h.date)]

\* the argument h of (h) => ({ ...h, dateObj: parseDate(h.date) }) after the
\* callback: the spread copies the properties of h into a new object
SpreadSource(h) == h

\* the elements of arr at the positions of idx, in that order
ElementsAt(arr, idx) == [k \in 1..Len(idx) |-> arr[idx[k]]]

RECURSIVE PositionsOfSku(_, _, _)
PositionsOfSku(arr, s, i) ==
  IF i > Len(arr) THEN <<>>
  ELSE (IF arr[i].sku = s THEN <<i>> ELSE <<>>) \o PositionsOfSku(arr, s, i + 1)

CallsInit ==
  /\ today \in Todays
  /\ sku = Sku
  /\ currentStock = 50
  /\ \E in \in SharedInputs :
       /\ history = in.history
       /\ orders = in.orders
       /\ minAmountData = in.minAmountData
  /\ rawHistory = <<>>
  /\ rawProducts = <<>>
  /\ products = NotLoaded
  /\ calls = [p \in 1..Len(CallProps) |-> FreshLocals(CallProps[p], "idle")]
  /\ NothingRendered
  /\ ParserIdle
  /\ ZoomIdle
  /\ SheetIdle

callsUnchanged ==
  UNCHANGED <<extVars, today, sku, currentStock, rawHistory, rawProducts, products, graphVars,
              listVars, overviewVars, dialogVars>>

\* a component renders: the invocation begins with fresh locals
StartCall(p) ==
  /\ calls[p].pc \in {"idle", "done"}
  /\ calls' = [calls EXCEPT ![p] = FreshLocals(CallProps[p], "min")]
  /\ UNCHANGED <<history, orders, minAmountData>>
  /\ callsUnchanged

\* minAmountData.find, then the test history && orders
FindMin(p) ==
  /\ calls[p].pc = "min"
  /\ \E found \in {IF minAmountData.loaded
                     THEN FindMinAmount(minAmountData.data, calls[p].sku) ELSE Null} :
       calls' = [calls EXCEPT ![p].minAmount = found,
                              ![p].result = EmptyResult(found),
                              ![p].pc = IF history.loaded /\ orders.loaded
                                          THEN "filter" ELSE "done"]
  /\ UNCHANGED <<history, orders, minAmountData>>
  /\ callsUnchanged

\* history.filter((h) => h.sku === sku): a new array of the same elements
FilterHistory(p) ==
  /\ calls[p].pc = "filter"
  /\ calls' = [calls EXCEPT ![p].filtered = PositionsOfSku(history.data, calls[p].sku, 1),
                            ![p].pc = "map"]
  /\ UNCHANGED <<history, orders, minAmountData>>
  /\ callsUnchanged

\* .map((h) => ({ ...h, dateObj: parseDate(h.date) })) and the filter on
\* dateObj !== null: the callback runs on the elements of the query result
MapHistory(p) ==
  /\ calls[p].pc = "map"
  /\ calls' = [calls EXCEPT
                 ![p].mapped = ParsedHistory(ElementsAt(history.data, calls[p].filtered),
                                             calls[p].sku),
                 ![p].pc = "sort"]
  /\ history' = [history EXCEPT !.data =
                   [i \in 1..Len(history.data) |->
                      IF \E k \in 1..Len(calls[p].filtered) : calls[p].filtered[k] = i
                        THEN SpreadSource(history.data[i]) ELSE history.data[i]]]
  /\ UNCHANGED <<orders, minAmountData>>
  /\ callsUnchanged

\* .sort(...) and the deduplicating filter, on the array of the invocation
SortHistory(p) ==
  /\ calls[p].pc = "sort"
  /\ calls' = [calls EXCEPT ![p].skuHistory = DedupFilter(SortByDateObj(calls[p].mapped)),
                            ![p].pc = "orders"]
  /\ UNCHANGED <<history, orders, minAmountData>>
  /\ callsUnchanged

\* orders.filter(...).map(...).filter(...).sort(...): new objects in a new array
MapOrders(p) ==
  /\ calls[p].pc = "orders"
  /\ calls' = [calls EXCEPT ![p].skuOrders = SkuOrdersOf(orders.data, calls[p].sku),
                            ![p].pc = "points"]
  /\ UNCHANGED <<history, orders, minAmountData>>
  /\ callsUnchanged

\* the regression and the points, or the branch without history, and the return
BuildPoints(p) ==
  /\ calls[p].pc = "points"
  /\ \E c \in {calls[p]} :
       calls' = [calls EXCEPT
         ![p].result =
            IF Len(c.skuHistory) >= 2
              THEN WithHistory(c.sku, c.currentStock, c.skuHistory, c.skuOrders, c.minAmount, today)
            ELSE IF c.currentStock > 0
              THEN WithoutHistory(c.sku, c.currentStock, c.skuHistory, c.skuOrders, c.minAmount, today)
            ELSE [EmptyResult(c.minAmount) EXCEPT !.skuHistory = c.skuHistory],
         ![p].pc = "done"]
  /\ UNCHANGED <<history, orders, minAmountData>>
  /\ callsUnchanged

CallsNext ==
  \E p \in 1..Len(CallProps) :
    \/ StartCall(p)
    \/ FindMin(p)
    \/ FilterHistory(p)
    \/ MapHistory(p)
    \/ SortHistory(p)
    \/ MapOrders(p)
    \/ BuildPoints(p)

CallsSpec == CallsInit /\ [][CallsNext]_vars

\* ------------------------------------------------------------------------
\* The three date parsers on one cell text
\* ------------------------------------------------------------------------
\* cell texts: day/month/year with "/" or "." and with "-", with years of two
\* and of four digits, an empty cell and a text that is no date
DateTexts ==
  {Dmy(d, m, y) : d \in {3, 10, 24}, m \in {2, 3, 12}, y \in {25, 2024, 2025}}
  \cup {DmyDash(d, m, y) : d \in {3, 10, 24}, m \in {2, 3, 12}, y \in {25, 2024, 2025}}
  \cup {EmptyText, JunkText}

\* the dashboard around the parsers and the zoom: nothing fetched or rendered
DashboardIdle ==
  /\ today \in Todays
  /\ sku = Sku
  /\ currentStock = 50
  /\ history = NotLoaded
  /\ orders = NotLoaded
  /\ minAmountData = NotLoaded
  /\ rawHistory = <<>>
  /\ rawProducts = <<>>
  /\ products = NotLoaded
  /\ calls = <<>>
  /\ NothingRendered

dashboardVars == <<calls, inputVars, history, products, graphVars, listVars, overviewVars, dialogVars>>

ParseInit ==
  /\ dateText \in DateTexts
  /\ parsedBy = {}
  /\ engineDate = NoDate
  /\ normalizerDate = NoDate
  /\ viewDate = NoDate
  /\ ZoomIdle
  /\ SheetIdle
  /\ DashboardIdle

ParseEngine ==
  /\ "engine" \notin parsedBy
  /\ engineDate' = parseDate(dateText)
  /\ parsedBy' = parsedBy \cup {"engine"}
  /\ UNCHANGED <<dateText, normalizerDate, viewDate, zoomVars, sheetVars, dashboardVars>>

ParseNormalizer ==
  /\ "normalizer" \notin parsedBy
  /\ \E iso \in IsoFallbackOutcomes(dateText) :
       normalizerDate' = IF dateText.kind = "empty" THEN NoDate
                         ELSE parseDateString(dateText, iso)
  /\ parsedBy' = parsedBy \cup {"normalizer"}
  /\ UNCHANGED <<dateText, engineDate, viewDate, zoomVars, sheetVars, dashboardVars>>

ParseView ==
  /\ "view" \notin parsedBy
  /\ viewDate' = parseDateOpenOrders(dateText)
  /\ parsedBy' = parsedBy \cup {"view"}
  /\ UNCHANGED <<dateText, engineDate, normalizerDate, zoomVars, sheetVars, dashboardVars>>

ParseNext == ParseEngine \/ ParseNormalizer \/ ParseView

ParseSpec == ParseInit /\ [][ParseNext]_vars

\* ------------------------------------------------------------------------
\* The zoom controls of ProductGraph
\* ------------------------------------------------------------------------
\* chartData.length: no chart, the shortest charts, and charts of the engine
ChartLengths == {0, 3, 4, HorizonSteps + 1, HorizonSteps + 2}

ZoomInit ==
  /\ chartLength \in ChartLengths
  /\ zoomRange = ZoomRange(0, 0)
  /\ zoomMounted = FALSE
  /\ ParserIdle
  /\ SheetIdle
  /\ DashboardIdle

\* useEffect(() => { if (chartData.length > 0) setZoomRange(...) }, [chartData.length])
ResetOnData ==
  /\ ~zoomMounted
  /\ zoomMounted' = TRUE
  /\ zoomRange' = IF chartLength > 0 THEN ZoomRange(0, chartLength - 1) ELSE zoomRange
  /\ UNCHANGED <<chartLength, parserVars, sheetVars, dashboardVars>>

zoomIn ==
  /\ zoomMounted
  /\ zoomRange' = ZoomedIn(zoomRange, ZoomStep(zoomRange.end - zoomRange.start, 15))
  /\ UNCHANGED <<chartLength, zoomMounted, parserVars, sheetVars, dashboardVars>>

zoomOut ==
  /\ zoomMounted
  /\ zoomRange' = ZoomedOut(zoomRange, ZoomStep(zoomRange.end - zoomRange.start, 15),
                            chartLength - 1)
  /\ UNCHANGED <<chartLength, zoomMounted, parserVars, sheetVars, dashboardVars>>

resetZoom ==
  /\ zoomMounted
  /\ zoomRange' = ZoomRange(0, chartLength - 1)
  /\ UNCHANGED <<chartLength, zoomMounted, parserVars, sheetVars, dashboardVars>>

panLeft ==
  /\ zoomMounted
  /\ zoomRange' = PannedLeft(zoomRange)
  /\ UNCHANGED <<chartLength, zoomMounted, parserVars, sheetVars, dashboardVars>>

panRight ==
  /\ zoomMounted
  /\ zoomRange' = PannedRight(zoomRange, chartLength - 1)
  /\ UNCHANGED <<chartLength, zoomMounted, parserVars, sheetVars, dashboardVars>>

\* handleWheel with deltaY < 0 (zoom in) or not (zoom out)
handleWheel(up) ==
  /\ zoomMounted
  /\ chartLength >= 3
  /\ zoomRange' =
       IF up THEN ZoomedIn(zoomRange, ZoomStep(zoomRange.end - zoomRange.start, 5))
       ELSE ZoomedOut(zoomRange, ZoomStep(zoomRange.end - zoomRange.start, 5), chartLength - 1)
  /\ UNCHANGED <<chartLength, zoomMounted, parserVars, sheetVars, dashboardVars>>

ZoomNext ==
  \/ ResetOnData
  \/ zoomIn
  \/ zoomOut
  \/ resetZoom
  \/ panLeft
  \/ panRight
  \/ \E up \in BOOLEAN : handleWheel(up)

ZoomSpec == ZoomInit /\ [][ZoomNext]_vars

\* ------------------------------------------------------------------------
\* The orders and products sheets, fetchOrders and the Apps Script
\* ------------------------------------------------------------------------
\* A text of the name, sku and received columns is a text of the model.  The
\* text of the log column is a sequence of tokens: a stamp ("S1", "S2", the
\* date-time texts DD/MM/YYYY HH:MM), ":", " ", "|", "<rlm>" (the mark
\* U+200F) or a word without digits.  A row of the orders sheet carries, next
\* to its cells, the number `id` of the order that was entered in it (0 for a
\* row nobody entered an order in); no code reads it.

\* String.prototype.trim on the texts of the name and sku columns
TrimCell(s) ==
  CASE s = " "   -> ""
    [] s = " B " -> "B"
    [] OTHER     -> s

RECURSIVE TrimStart(_)
TrimStart(t) == IF t /= <<>> /\ Head(t) = " " THEN TrimStart(Tail(t)) ELSE t

RECURSIVE TrimEnd(_)
TrimEnd(t) ==
  IF t /= <<>> /\ t[Len(t)] = " " THEN TrimEnd(SubSeq(t, 1, Len(t) - 1)) ELSE t

\* String.prototype.trim on a text of tokens
TrimText(t) == TrimEnd(TrimStart(t))

OrderRow(productName, dermaSku, received, log, id) ==
  [productName |-> productName, dermaSku |-> dermaSku, received |-> received,
   log |-> log, id |-> id]

EmptyRow == OrderRow("", "", "", <<>>, 0)

ProductRow(name, productSku) == [name |-> name, sku |-> productSku]

\* results.data.map((item, idx) => ({ data: item, originalIndex: idx + 2 })),
\* idx counted from 0 over all the rows below the header
parseCsvWithIndex(rows) ==
  [i \in 1..Len(rows) |-> [data |-> rows[i], originalIndex |-> (i - 1) + 2]]

\* row["שם פריט"]?.trim() is not empty
RowPresent(row) == TrimCell(row.productName) /= ""

ItemPresent(item) == RowPresent(item.data)

\* the object built from a row by the map of fetchOrders
OrderOf(row, rowIndex) ==
  [productName |-> TrimCell(row.productName), dermaSku |-> TrimCell(row.dermaSku),
   received |-> TrimCell(row.received), comments |-> TrimText(row.log),
   rowIndex |-> rowIndex, id |-> row.id]

\* fetchOrders over parseCsvWithIndex: the index is taken before the filter
fetchOrders(rows) ==
  LET kept == SelectSeq(parseCsvWithIndex(rows), ItemPresent)
  IN  [i \in 1..Len(kept) |-> OrderOf(kept[i].data, kept[i].originalIndex)]

\* fetchOrders of the other googleSheets module: rowIndex is idx + 2 with idx
\* the position in the filtered array
fetchOrdersFiltered(rows) ==
  LET kept == SelectSeq(rows, RowPresent)
  IN  [i \in 1..Len(kept) |-> OrderOf(kept[i], (i - 1) + 2)]

\* a row without content in any cell
IsEmptyRow(row) ==
  row.productName = "" /\ row.dermaSku = "" /\ row.received = "" /\ row.log = <<>>

\* the rows up to the last row with content
RECURSIVE DataRange(_)
DataRange(rows) ==
  IF rows /= <<>> /\ IsEmptyRow(rows[Len(rows)])
    THEN DataRange(SubSeq(rows, 1, Len(rows) - 1)) ELSE rows

\* faulty variant of appendRow: the row is inserted below the header
insertRowFirst(rows, row) == <<row>> \o rows

\* sheet.appendRow: the row is written below the last row with content
appendRow(rows, row) == Append(rows, row)

\* sheet.getRange(rowIndex, column).setValue(value), rowIndex >= 2
setValue(rows, rowIndex, column, value) ==
  LET r      == rowIndex - 1
      padded == IF r > Len(rows)
                  THEN rows \o [i \in 1..(r - Len(rows)) |-> EmptyRow] ELSE rows
  IN  DataRange([padded EXCEPT ![r] = [@ EXCEPT ![column] = value]])

\* faulty variant of ReceivedCell: a word no filter knows
ReceivedCellDone(received) == IF received THEN "done" ELSE ""

\* data.received ? "כן" : ""
ReceivedCell(received) == IF received THEN "<ken>" ELSE ""

\* updateOrderStatus of the Apps Script
updateOrderStatus(rows, data) ==
  IF data.rowIndex < 2
    THEN [success |-> FALSE, rows |-> rows]
    ELSE [success |-> TRUE,
          rows |-> setValue(rows, data.rowIndex, "received", ReceivedCell(data.received))]

\* addOrder of the Apps Script: received is written empty
addOrder(rows, data) ==
  appendRow(rows, OrderRow(data.productName, data.dermaSku, "", data.log, data.id))

\* addProduct of the Apps Script
addProduct(rows, data) == appendRow(rows, ProductRow(data.name, data.sku))

\* existingSkus: the trimmed, non-empty skus of the products sheet
existingSkus(productsData) ==
  {TrimCell(productsData[k].sku) : k \in 1..Len(productsData)} \ {""}

\* faulty variant of IsMissing: seenSkus is not consulted
IsMissingUnseen(orderSku, existing, seenSkus) ==
  orderSku /= "" /\ orderSku \notin existing

\* orderSku && !existingSkus[orderSku] && !seenSkus[orderSku]
IsMissing(orderSku, existing, seenSkus) ==
  orderSku /= "" /\ orderSku \notin existing /\ orderSku \notin seenSkus

\* the loop of syncMissingProducts from row m of the orders on
RECURSIVE SyncLoop(_, _, _, _, _, _)
SyncLoop(ordersData, m, existing, seenSkus, productRows, added) ==
  IF m > Len(ordersData) THEN [rows |-> productRows, added |-> added]
  ELSE LET orderSku  == TrimCell(ordersData[m].dermaSku)
           orderName == TrimCell(ordersData[m].productName)
       IN  IF IsMissing(orderSku, existing, seenSkus)
             THEN SyncLoop(ordersData, m + 1, existing, seenSkus \cup {orderSku},
                           appendRow(productRows, ProductRow(orderName, orderSku)),
                           added + 1)
             ELSE SyncLoop(ordersData, m + 1, existing, seenSkus, productRows, added)

\* syncMissingProducts of the Apps Script
syncMissingProducts(ordersData, productsData) ==
  SyncLoop(ordersData, 1, existingSkus(productsData), {}, productsData, 0)

\* data.comment || data.comments || ""
NewComment(data) == IF data.comment /= <<>> THEN data.comment ELSE data.comments

\* existing ? existing + " | " + newComment : newComment
FinalValue(existing, newComment) ==
  IF existing /= <<>> THEN existing \o <<" ", "|", " ">> \o newComment ELSE newComment

\* the payload of updateOrderComments of googleSheets.ts
CommentsPayload(rowIndex, comments) ==
  [rowIndex |-> rowIndex, comments |-> comments, comment |-> comments]

\* ------------------------------------------------------------------------
\* The comment log: handleAddComment and parseCommentLog of OpenOrders.tsx
\* ------------------------------------------------------------------------
Stamps == {"S1", "S2"}

\* raw.replace(/[\u200B-\u200F\u202A-\u202E]/g, "")
RECURSIVE StripMarks(_)
StripMarks(t) ==
  IF t = <<>> THEN <<>>
  ELSE IF Head(t) = "<rlm>" THEN StripMarks(Tail(t))
  ELSE <<Head(t)>> \o StripMarks(Tail(t))

\* split("|") of the text t, cur being the part read so far
RECURSIVE SplitBar(_, _)
SplitBar(t, cur) ==
  IF t = <<>> THEN <<cur>>
  ELSE IF Head(t) = "|" THEN <<cur>> \o SplitBar(Tail(t), <<>>)
  ELSE SplitBar(Tail(t), Append(cur, Head(t)))

\* the first position of the entry at or after i where the pattern
\* date-time, colon matches; 0 when there is none
RECURSIVE DateMatchFrom(_, _)
DateMatchFrom(entry, i) ==
  IF i + 1 > Len(entry) THEN 0
  ELSE IF entry[i] \in Stamps /\ entry[i + 1] = ":" THEN i
  ELSE DateMatchFrom(entry, i + 1)

\* the callback of parts.map in parseCommentLog; a date is <<>> or <<stamp>>
CommentEntry(entry) ==
  LET trimmed   == TrimText(entry)
      dateMatch == DateMatchFrom(trimmed, 1)
  IN  IF dateMatch > 0
        THEN [date |-> <<trimmed[dateMatch]>>,
              text |-> TrimText(SubSeq(trimmed, dateMatch + 2, Len(trimmed)))]
        ELSE [date |-> <<>>, text |-> trimmed]

HasText(e) == e.text /= <<>>

parseCommentLog(raw) ==
  IF TrimText(raw) = <<>> THEN <<>>
  ELSE LET parts == SplitBar(TrimText(StripMarks(raw)), <<>>)
       IN  SelectSeq([i \in 1..Len(parts) |-> CommentEntry(parts[i])], HasText)

\* commentStr of handleAddComment: `${dateStr}: ${newComment.trim()}`
CommentStr(dateStr, newComment) == <<dateStr, ":", " ">> \o TrimText(newComment)

\* ------------------------------------------------------------------------
\* The dashboard and the Apps Script on the sheets
\* ------------------------------------------------------------------------
MaxSheetRows == 4
MaxRequests == 2

\* rows of the pool: two open orders of the product A, a received order whose
\* sku is written with blanks around it, and a row with a sku but no name
RowP == OrderRow("P", "A", "", <<>>, 1)
RowQ == OrderRow("Q", " B ", "v", <<>>, 2)
RowR == OrderRow("R", "A", "", <<>>, 3)
NoteRow == OrderRow("", "C", "", <<>>, 4)

\* orders sheets as the spreadsheet can hold them; the log cells are empty
OrdersSheets ==
  { <<RowP>>, <<EmptyRow, RowP>>, <<RowP, EmptyRow, RowR>>,
    <<NoteRow, RowQ, RowP>> }

ProductsSheets ==
  { <<>>, <<ProductRow("P", "A")>>, <<ProductRow("Q", " B ")>> }

\* the two googleSheets modules of the repository
Fetchers == {"fetchOrders", "fetchOrdersFiltered"}

\* texts typed in the comment box
CommentTexts ==
  { <<"a">>, <<" ", "b", " ", "c">>, <<"a", "|", "b">>, <<"<rlm>", "a">> }

\* the orders returned by the fetchOrders of the build
Fetched(rows) ==
  IF ordersCache.fetcher = "fetchOrders"
    THEN fetchOrders(rows) ELSE fetchOrdersFiltered(rows)

\* the date-time text of the clock: a minute passes between two comments
Now == IF executions = <<>> THEN "S1" ELSE "S2"

\* the number of the next order entered
NextId == 5 + Len(ordersSheet)

\* the dashboard at its start on the sheets `rows` and `productRows`, built
\* with the googleSheets module whose fetchOrders is `fetcher`
StartOn(rows, productRows, fetcher) ==
  /\ DashboardIdle
  /\ ParserIdle
  /\ ZoomIdle
  /\ ordersSheet = rows
  /\ productsSheet = productRows
  /\ ordersCache = [fetcher |-> fetcher, loaded |-> FALSE, stale |-> FALSE,
                    data |-> <<>>]
  /\ statusMutation = [status |-> "idle"]
  /\ executions = <<>>
  /\ lastRun = [action |-> "none"]
  /\ requests = 0

\* every write action at work on one orders sheet
SheetInit ==
  \E rows \in {<<EmptyRow, RowP>>, <<NoteRow, RowQ, RowP>>} :
    StartOn(rows, <<ProductRow("P", "A")>>, "fetchOrders")

sheetUnchanged == UNCHANGED <<dashboardVars, parserVars, zoomVars>>

\* the queryFn of useOrders, at mount, on the refetch interval or after an
\* invalidation
FetchOrders ==
  /\ ordersCache' = [ordersCache EXCEPT !.loaded = TRUE, !.stale = FALSE,
                                        !.data = Fetched(ordersSheet)]
  /\ UNCHANGED <<ordersSheet, productsSheet, statusMutation, executions, lastRun>>
  /\ UNCHANGED requests
  /\ sheetUnchanged

\* statusMutation.mutate({ rowIndex, received }): useUpdateOrderStatus has a
\* mutationFn and an onSuccess only, the cache is left as it is
ToggleStatus ==
  /\ requests < MaxRequests
  /\ requests' = requests + 1
  /\ ordersCache.loaded
  /\ statusMutation.status /= "pending"
  /\ \E i \in 1..Len(ordersCache.data), received \in BOOLEAN :
       statusMutation' = [status |-> "pending",
                          rowIndex |-> ordersCache.data[i].rowIndex,
                          received |-> received]
  /\ UNCHANGED <<ordersSheet, productsSheet, ordersCache, executions, lastRun>>
  /\ sheetUnchanged

\* the request of the mutation is answered with success: the Apps Script has
\* run updateOrderStatus and onSuccess invalidates the orders query
StatusWritten ==
  /\ statusMutation.status = "pending"
  /\ \E result \in {updateOrderStatus(ordersSheet, statusMutation)} :
       /\ result.success
       /\ ordersSheet' = result.rows
  /\ statusMutation' = [statusMutation EXCEPT !.status = "success"]
  /\ ordersCache' = [ordersCache EXCEPT !.stale = TRUE]
  /\ lastRun' = [action |-> "updateOrderStatus",
                 rowIndex |-> statusMutation.rowIndex,
                 received |-> statusMutation.received]
  /\ UNCHANGED <<productsSheet, executions>>
  /\ UNCHANGED requests
  /\ sheetUnchanged

\* the request of the mutation fails (postToSheet throws): no onError
StatusFailed ==
  /\ statusMutation.status = "pending"
  /\ statusMutation' = [statusMutation EXCEPT !.status = "error"]
  /\ UNCHANGED <<ordersSheet, productsSheet, ordersCache, executions, lastRun>>
  /\ UNCHANGED requests
  /\ sheetUnchanged

\* useAddOrder: addOrder of the Apps Script, then the orders query is
\* invalidated; the dialog sends a trimmed, non-empty product name
AddOrder ==
  /\ requests < MaxRequests
  /\ requests' = requests + 1
  /\ Len(ordersSheet) < MaxSheetRows
  /\ \E dermaSku \in {"A", "D", ""} :
       ordersSheet' = addOrder(ordersSheet,
                               [productName |-> "S", dermaSku |-> dermaSku,
                                log |-> <<>>, id |-> NextId])
  /\ ordersCache' = [ordersCache EXCEPT !.stale = TRUE]
  /\ lastRun' = [action |-> "addOrder"]
  /\ UNCHANGED <<productsSheet, statusMutation, executions>>
  /\ sheetUnchanged

\* useAddProduct: addProduct of the Apps Script
AddProduct ==
  /\ requests < MaxRequests
  /\ requests' = requests + 1
  /\ Len(productsSheet) < MaxSheetRows
  /\ productsSheet' = addProduct(productsSheet, [name |-> "T", sku |-> "D"])
  /\ lastRun' = [action |-> "addProduct"]
  /\ UNCHANGED <<ordersSheet, ordersCache, statusMutation, executions>>
  /\ sheetUnchanged

\* useSyncMissingProducts: syncMissingProducts of the Apps Script
SyncMissingProducts ==
  /\ requests < MaxRequests
  /\ requests' = requests + 1
  /\ \E result \in {syncMissingProducts(ordersSheet, productsSheet)} :
       /\ productsSheet' = result.rows
       /\ lastRun' = [action |-> "syncMissingProducts",
                      added |-> result.added,
                      before |-> productsSheet]
  /\ UNCHANGED <<ordersSheet, ordersCache, statusMutation, executions>>
  /\ sheetUnchanged

\* handleAddComment: the comment is sent with the rowIndex of the order shown
PostComment(typed) ==
  /\ requests < MaxRequests
  /\ requests' = requests + 1
  /\ ordersCache.loaded
  /\ \E i \in 1..Len(ordersCache.data), newComment \in typed, dateStr \in {Now} :
       /\ TrimText(newComment) /= <<>>
       /\ executions' =
            Append(executions,
                   [pc |-> "posted",
                    data |-> CommentsPayload(ordersCache.data[i].rowIndex,
                                             CommentStr(dateStr, newComment)),
                    existing |-> <<>>])
  /\ UNCHANGED <<ordersSheet, productsSheet, ordersCache, statusMutation, lastRun>>
  /\ sheetUnchanged

\* the log cell of a row, "" below the data range
LogCell(rows, rowIndex) ==
  IF rowIndex - 1 <= Len(rows) THEN rows[rowIndex - 1].log ELSE <<>>

\* updateOrderComments of the Apps Script up to range.getValue()
ReadLog(k) ==
  /\ executions[k].pc = "posted"
  /\ executions[k].data.rowIndex >= 2
  /\ NewComment(executions[k].data) /= <<>>
  /\ executions' = [executions EXCEPT
                      ![k].pc = "read",
                      ![k].existing = TrimText(LogCell(ordersSheet, executions[k].data.rowIndex))]
  /\ UNCHANGED <<ordersSheet, productsSheet, ordersCache, statusMutation, lastRun>>
  /\ UNCHANGED requests
  /\ sheetUnchanged

\* updateOrderComments of the Apps Script from range.setValue(finalValue) on
WriteLog(k) ==
  /\ executions[k].pc = "read"
  /\ ordersSheet' = setValue(ordersSheet, executions[k].data.rowIndex, "log",
                             FinalValue(executions[k].existing,
                                        NewComment(executions[k].data)))
  /\ executions' = [executions EXCEPT ![k].pc = "done"]
  /\ lastRun' = [action |-> "updateOrderComments",
                 rowIndex |-> executions[k].data.rowIndex]
  /\ UNCHANGED <<productsSheet, ordersCache, statusMutation>>
  /\ UNCHANGED requests
  /\ sheetUnchanged

SheetNext ==
  \/ FetchOrders
  \/ ToggleStatus
  \/ StatusWritten
  \/ StatusFailed
  \/ AddOrder
  \/ AddProduct
  \/ SyncMissingProducts
  \/ PostComment({<<"a">>})
  \/ \E k \in 1..Len(executions) : ReadLog(k)
  \/ \E k \in 1..Len(executions) : WriteLog(k)

SheetSpec == SheetInit /\ [][SheetNext]_vars

\* one order row and two comments, typed by one or two users
CommentsInit ==
  \E rows \in {<<RowP>>, <<EmptyRow, RowP>>} : StartOn(rows, <<>>, "fetchOrders")

CommentsNext ==
  \/ FetchOrders
  \/ PostComment(CommentTexts)
  \/ \E k \in 1..Len(executions) : ReadLog(k)
  \/ \E k \in 1..Len(executions) : WriteLog(k)

CommentsSpec == CommentsInit /\ [][CommentsNext]_vars

\* the status toggle on every orders sheet, with either googleSheets module
StatusInit ==
  \E rows \in OrdersSheets, fetcher \in Fetchers : StartOn(rows, <<>>, fetcher)

StatusNext ==
  \/ FetchOrders
  \/ ToggleStatus
  \/ StatusWritten
  \/ StatusFailed

StatusSpec == StatusInit /\ [][StatusNext]_vars

\* the products sheet under addOrder, addProduct and syncMissingProducts
SyncInit ==
  \E rows \in OrdersSheets, productRows \in ProductsSheets :
    StartOn(rows, productRows, "fetchOrders")

SyncNext ==
  \/ AddOrder
  \/ AddProduct
  \/ SyncMissingProducts

SyncSpec == SyncInit /\ [][SyncNext]_vars

TypeOK ==
  /\ rendered \in BOOLEAN
  /\ criticalPoint \in 0..Len(chartData)
  /\ Len(chartData) <= MaxHist + 1 + HorizonSteps
\* ------------------------------------------------------------------------
\* Vocabulary of the properties (stated on the inputs and the output,
\* independently of the operators above)
\* ------------------------------------------------------------------------
Max2(a, b) == IF a > b THEN a ELSE b

RECURSIVE SumQty(_, _)
SumQty(S, qty) ==
  IF S = {} THEN 0
  ELSE LET j == CHOOSE j \in S : TRUE IN qty[j] + SumQty(S \ {j}, qty)

\* open orders of the product: rows of the sku not marked received
OpenIdx ==
  {j \in 1..Len(orders.data) : orders.data[j].dermaSku = sku /\ ~IsReceived(orders.data[j])}

\* open orders with a resolved expected date
ResolvedIdx == {j \in OpenIdx : IsDate(ResolveExpected(orders.data[j]))}

\* the resolved open orders, by row: expected date and quantity
Resolved ==
  [j \in ResolvedIdx |->
    [expectedDate |-> ResolveExpected(orders.data[j])[1],
     qty          |-> ParseQty(orders.data[j].quantity)]]

\* total quantity of the orders of R expected after lo and not after hi
RECURSIVE QtyWithin(_, _, _, _)
QtyWithin(R, S, lo, hi) ==
  IF S = {} THEN 0
  ELSE LET j == CHOOSE j \in S : TRUE
       IN  (IF R[j].expectedDate > lo /\ R[j].expectedDate <= hi THEN R[j].qty ELSE 0)
           + QtyWithin(R, S \ {j}, lo, hi)

\* usable samples: rows of the sku whose date parses
UsableIdx ==
  {j \in 1..Len(history.data) :
     history.data[j].sku = sku /\ IsDate(parseDate(history.data[j].date))}

SampleDates == {parseDate(history.data[j].date)[1] : j \in UsableIdx}

LastSampleDate == CHOOSE d \in SampleDates : \A e \in SampleDates : e <= d

Projected == rendered /\ Len(chartData) >= HorizonSteps

\* index in chartData of the i-th future point and of the anchor before them
FutureIdx(i) == Len(chartData) - HorizonSteps + i
AnchorIdx == Len(chartData) - HorizonSteps

\* forecast start of the engine: max(today, last history date) with at least
\* two deduplicated samples, today otherwise
EngineStart ==
  IF Len(skuHistory) >= 2 THEN Max2(today, LastSampleDate) ELSE today

\* forecast start as the specification words it
SpecStart == IF SampleDates /= {} THEN Max2(today, LastSampleDate) ELSE today

\* currentStock plus the orders of R due on or before start
StartQtyAt(R, start) == currentStock + QtyWithin(R, DOMAIN R, 0, start)

\* the orders of R due after start and within the first i steps
ArrivedBy(R, start, i) == QtyWithin(R, DOMAIN R, start, start + 7 * i)

RECURSIVE Gcd(_, _)
Gcd(a, b) == IF b = 0 THEN a ELSE Gcd(b, a % b)

Abs(a) == IF a < 0 THEN 0 - a ELSE a

\* a fraction with positive denominator in lowest terms
Reduced(r) ==
  LET g == Gcd(Abs(r.n), r.d) IN [n |-> r.n \div g, d |-> r.d \div g]

\* equality of two rates as numbers (NaN is taken equal to NaN)
SameRate(a, b) ==
  \/ a.d = 0 /\ b.d = 0
  \/ a.d /= 0 /\ b.d /= 0 /\ Reduced(a) = Reduced(b)

ForecastOnly(i) == chartData[i].quantity = Null

\* withArrivals, falling back to declineOnly when absent
PointValue(i) ==
  IF chartData[i].onTheWay.k /= "null" THEN chartData[i].onTheWay ELSE chartData[i].forecast

Exceeds(i) == PointValue(i).k = "num" /\ PointValue(i).v > minAmount.v
NotAbove(i) == PointValue(i).k = "num" /\ PointValue(i).v <= minAmount.v

FirstOf(S) == IF S = {} THEN 0 ELSE CHOOSE i \in S : \A k \in S : i <= k
LastOf(S) == IF S = {} THEN 0 ELSE CHOOSE i \in S : \A k \in S : k <= i

\* ------------------------------------------------------------------------
\* C1: the critical point never lies between an earlier and a later
\* forecast-only point whose value exceeds minAmount (no alert on a
\* transient dip followed by a recovery), with and without open orders.
\* ------------------------------------------------------------------------
C1_NoAlertOnTransientDip ==
  (rendered /\ criticalPoint /= 0) =>
    ~ \E a, b \in 1..Len(chartData) :
         /\ a < criticalPoint /\ criticalPoint < b
         /\ ForecastOnly(a) /\ ForecastOnly(b)
         /\ Exceeds(a) /\ Exceeds(b)

\* an alert placed after a dip below the threshold and a recovery above it
C1_Witness ==
  /\ rendered /\ criticalPoint /= 0
  /\ \E a, b, c \in 1..Len(chartData) :
       /\ a < b /\ b < c /\ c < criticalPoint
       /\ ForecastOnly(a) /\ ForecastOnly(b) /\ ForecastOnly(c)
       /\ Exceeds(a) /\ NotAbove(b) /\ Exceeds(c)

\* ------------------------------------------------------------------------
\* C2: the critical point is none without minAmount; without open orders the
\* first forecast-only point with declineOnly <= minAmount; with open orders
\* the first point at or below minAmount after the last point above it (the
\* first point at or below when none is above); none when there is no such
\* point.
\* ------------------------------------------------------------------------
C2_Expected ==
  IF minAmount = Null THEN 0
  ELSE LET FP    == {i \in 1..Len(chartData) : ForecastOnly(i)}
           above == {i \in FP : Exceeds(i)}
       IN  IF OpenIdx = {}
             THEN FirstOf({i \in FP : /\ chartData[i].forecast.k = "num"
                                      /\ chartData[i].forecast.v <= minAmount.v})
           ELSE FirstOf({i \in FP : i > LastOf(above) /\ NotAbove(i)})

C2_CriticalPointDefinition == rendered => criticalPoint = C2_Expected

\* with open orders, a crossing found after the last point above the threshold
C2_Witness ==
  /\ rendered /\ OpenIdx /= {} /\ criticalPoint /= 0
  /\ \E a \in 1..Len(chartData) : a < criticalPoint /\ ForecastOnly(a) /\ Exceeds(a)
  /\ PointValue(criticalPoint).v = minAmount.v
\* ------------------------------------------------------------------------
\* C3: the forecast rate.  The regression slope is stated here in its
\* pairwise form: sum over i < j of (xj - xi)(yj - yi), over the sum of
\* (xj - xi)^2.
\* ------------------------------------------------------------------------
PairSum(kind) ==
  LET P == {<<i, j>> \in (1..Len(skuHistory)) \X (1..Len(skuHistory)) : i < j}
      term == [q \in P |->
                LET dx == skuHistory[q[2]].dateObj - skuHistory[q[1]].dateObj
                    dy == skuHistory[q[2]].quantity - skuHistory[q[1]].quantity
                IN  IF kind = "xy" THEN dx * dy ELSE dx * dx]
  IN  SumQty(P, term)

PairwiseSlope ==
  IF Len(skuHistory) >= 2 THEN [n |-> PairSum("xy"), d |-> PairSum("xx")] ELSE ZeroRate

ThresholdRate == [n |-> 0 - minAmount.v, d |-> 180]

ExpectedRate == IF minAmount /= Null THEN ThresholdRate ELSE PairwiseSlope

\* every projection step applies the rate r to the starting quantity
AppliedAtEveryStep(r) ==
  \A s \in {StartQtyAt(Resolved, EngineStart)} :
    \A i \in 1..HorizonSteps :
      chartData[FutureIdx(i)].forecast = MaxZeroRound(s * r.d + 7 * i * r.n, r.d)

\* C3 as claimed: with a threshold, declineRate is -minAmount/180 whatever the
\* history length (the inputs being loaded)
C3_AsClaimed ==
  (rendered /\ history.loaded /\ orders.loaded) =>
    /\ minAmount /= Null => SameRate(declineRate, ThresholdRate)
    /\ minAmount = Null => SameRate(declineRate, PairwiseSlope)

\* C3 (amended): when history and orders are loaded and a projection is
\* produced (at least 2 deduplicated samples, or currentStock > 0), declineRate
\* is -minAmount/180 for a product with a threshold and the regression slope
\* (0 with fewer than 2 deduplicated samples) without one, and it is the rate
\* applied at every projection step; realRate is the regression slope (0 with
\* fewer than 2 deduplicated samples); when no projection is produced
\* declineRate is 0.
C3_ForecastRate ==
  rendered =>
    /\ Projected =>
         \A r \in {ExpectedRate} :
           /\ SameRate(declineRate, r)
           /\ AppliedAtEveryStep(r)
           /\ SameRate(realRate, PairwiseSlope)
    /\ ~Projected => declineRate = ZeroRate /\ realRate = ZeroRate

\* a threshold overrides a regression slope that differs from it
C3_Witness ==
  /\ Projected /\ minAmount /= Null /\ Len(skuHistory) >= 2
  /\ realRate.d /= 0 /\ ~SameRate(realRate, declineRate)
  /\ chartData[FutureIdx(1)].forecast.v > 0

\* ------------------------------------------------------------------------
\* C4: the 26 future points.
\* ------------------------------------------------------------------------
FuturePointsFrom(start) ==
  /\ Len(chartData) >= HorizonSteps
  /\ \A i \in 1..HorizonSteps :
       /\ ForecastOnly(FutureIdx(i))
       /\ chartData[FutureIdx(i)].day = start + 7 * i
  /\ Cardinality({k \in 1..Len(chartData) : chartData[k].day > start}) = HorizonSteps

\* C4 as claimed: the forecast start is max(today, last history date) for 0, 1
\* or many usable samples
C4_AsClaimed ==
  (rendered /\ history.loaded /\ orders.loaded /\ currentStock > 0) =>
    FuturePointsFrom(SpecStart)

\* C4 (amended): with currentStock > 0 and history and orders loaded, the
\* output ends with exactly 26 future points (actual absent), the i-th dated
\* forecast start + 7*i days, where forecast start is max(today, last history
\* date) when at least 2 samples remain after deduplication and today
\* otherwise.
C4_TwentySixFuturePoints ==
  (rendered /\ history.loaded /\ orders.loaded /\ currentStock > 0) =>
    FuturePointsFrom(EngineStart)

\* a single usable sample dated after today: the projection starts today
C4_Witness ==
  /\ Projected /\ currentStock > 0
  /\ Len(skuHistory) = 1 /\ skuHistory[1].dateObj > today
  /\ chartData[FutureIdx(1)].day = today + 7

\* ------------------------------------------------------------------------
\* C5: presence of withArrivals.
\* ------------------------------------------------------------------------

\* C5 as claimed: absent everywhere without open orders, present at every
\* point (historical, today bridge, future) with at least one; the open orders
\* are those handed to the engine, the ones with a resolved expected date
C5_AsClaimed ==
  rendered =>
    /\ ResolvedIdx = {} => \A i \in 1..Len(chartData) : chartData[i].onTheWay = Null
    /\ ResolvedIdx /= {} => \A i \in 1..Len(chartData) : chartData[i].onTheWay /= Null

\* C5 (amended): withArrivals is absent at every point when the product has no
\* open order with a resolved expected date; when it has at least one,
\* withArrivals is present at every one of the 26 future points and at no more
\* than one of the points before them.
C5_WithArrivalsPresence ==
  rendered =>
    /\ ResolvedIdx = {} => \A i \in 1..Len(chartData) : chartData[i].onTheWay = Null
    /\ (ResolvedIdx /= {} /\ Projected) =>
         /\ \A i \in 1..HorizonSteps : chartData[FutureIdx(i)].onTheWay /= Null
         /\ Cardinality({i \in 1..AnchorIdx : chartData[i].onTheWay /= Null}) <= 1

\* open orders exist, the future points carry withArrivals and a historical
\* point does not
C5_Witness ==
  /\ Projected /\ ResolvedIdx /= {}
  /\ chartData[FutureIdx(1)].onTheWay /= Null
  /\ \E i \in 1..Len(chartData) : ~ForecastOnly(i) /\ chartData[i].onTheWay = Null

C7_AnchorCarriesStartQty ==
  Projected =>
    \A R \in {Resolved} : \A s \in {StartQtyAt(R, SpecStart)} :
      /\ chartData[AnchorIdx].forecast = Num(s)
      /\ DOMAIN R /= {} => chartData[AnchorIdx].onTheWay = Num(s)
      /\ DOMAIN R = {} => chartData[AnchorIdx].onTheWay = Null

\* ------------------------------------------------------------------------
\* C8: the consecutive-duplicate filter is idempotent: applied to the
\* deduplicated samples of the engine it returns them unchanged.
\* ------------------------------------------------------------------------
C8_DedupIdempotent == rendered => DedupFilter(skuHistory) = skuHistory

\* the filter dropped a sample and kept at least two
C8_Witness ==
  /\ rendered
  /\ Len(skuHistory) >= 2
  /\ Len(skuHistory) < Cardinality(UsableIdx)

\* ------------------------------------------------------------------------
\* C9: dates of the points.
\* ------------------------------------------------------------------------

\* C9 as claimed: no two points of an output sequence carry the same date
C9_AsClaimed ==
  rendered =>
    \A i, j \in 1..Len(chartData) : i < j => chartData[i].day /= chartData[j].day

\* the runs of the sorted usable samples: positions that differ from their
\* predecessor in day/month label or in quantity
RunStarts(sorted) ==
  {i \in 1..Len(sorted) :
     \/ i = 1
     \/ <<formatDateShort(sorted[i].dateObj), sorted[i].quantity>>
          /= <<formatDateShort(sorted[i - 1].dateObj), sorted[i - 1].quantity>>}

\* C9 (amended): each of the 26 future points carries a calendar date that no
\* other point of the sequence carries; when at least two samples remain after
\* deduplication, the history part has exactly one point per run of
\* consecutive sorted samples with the same day/month label and the same
\* quantity, each dated as a sample, so two consecutive historical points never
\* agree on both label and quantity (samples of one date with different
\* quantities each keep their point).
C9_DistinctDates ==
  (rendered /\ history.loaded /\ orders.loaded) =>
    /\ Projected =>
         \A i \in 1..HorizonSteps : \A j \in 1..Len(chartData) :
           j /= FutureIdx(i) => chartData[j].day /= chartData[FutureIdx(i)].day
    /\ \A runs \in {Cardinality(RunStarts(SortByDateObj(ParsedHistory(history.data, sku))))} :
         runs >= 2 =>
           /\ Cardinality({i \in 1..Len(chartData) : ~ForecastOnly(i)}) = runs
           /\ \A i \in 1..runs : ~ForecastOnly(i) /\ chartData[i].day \in SampleDates
    /\ \A i \in 1..(Len(chartData) - 1) :
         (~ForecastOnly(i) /\ ~ForecastOnly(i + 1)) =>
           \/ chartData[i].date /= chartData[i + 1].date
           \/ chartData[i].quantity /= chartData[i + 1].quantity

\* two historical points of one calendar date with different quantities, after
\* a repeated sample was dropped
C9_Witness ==
  /\ Projected
  /\ Len(skuHistory) < Cardinality(UsableIdx)
  /\ \E i \in 1..(Len(chartData) - 1) :
       /\ ~ForecastOnly(i) /\ ~ForecastOnly(i + 1)
       /\ chartData[i].day = chartData[i + 1].day
       /\ chartData[i].quantity /= chartData[i + 1].quantity

\* ------------------------------------------------------------------------
\* C10: the dates of consecutive points of an output sequence are in
\* ascending chronological order, whatever the relation between the last
\* sample date and today.
\* ------------------------------------------------------------------------
C10_ChronologicalOrder ==
  rendered =>
    \A i \in 1..(Len(chartData) - 1) : chartData[i].day <= chartData[i + 1].day

\* ------------------------------------------------------------------------
\* C11: the history part of the output.
\* ------------------------------------------------------------------------

\* the deduplicated samples: the first sample of every run of the sorted
\* usable samples
KeptSamples ==
  LET sorted == SortByDateObj(ParsedHistory(history.data, sku))
      S      == RunStarts(sorted)
      at(k)  == CHOOSE i \in S : Cardinality({j \in S : j <= i}) = k
  IN  [k \in 1..Cardinality(S) |-> sorted[at(k)]]

\* one point per sample of K with actual = its quantity, declineOnly absent
\* except on the last one, and a today point appended exactly when the last
\* sample is not dated today; the point carrying today's label that is found
\* first holds startQty after folding, the other one currentStock
HistoryPart(K, startQty) ==
  LET n        == Len(K)
      bridged  == K[n].dateObj /= today
      lastIsTodayLabel == formatDateShort(K[n].dateObj) = formatDateShort(today)
  IN  /\ Len(chartData) = n + (IF bridged THEN 1 ELSE 0) + HorizonSteps
      /\ \A i \in 1..n :
           /\ chartData[i].quantity = Num(K[i].quantity)
           /\ chartData[i].day = K[i].dateObj
           /\ i < n => chartData[i].forecast = Null
      /\ chartData[n].forecast =
           (IF lastIsTodayLabel THEN Num(startQty) ELSE Num(currentStock))
      /\ bridged =>
           /\ chartData[n + 1].quantity = Null
           /\ chartData[n + 1].day = today
           /\ chartData[n + 1].forecast =
                (IF lastIsTodayLabel THEN Num(currentStock) ELSE Num(startQty))

\* C11 as claimed: the history part is emitted for every history with at least
\* one usable deduplicated sample
C11_AsClaimed ==
  (rendered /\ history.loaded /\ orders.loaded) =>
    \A K \in {KeptSamples} :
      Len(K) >= 1 => HistoryPart(K, StartQtyAt(Resolved, EngineStart))

\* C11 (amended): for every history that keeps at least 2 deduplicated samples
\* the output holds one point per deduplicated sample with actual = that
\* sample's quantity; declineOnly is absent on all of them except the last
\* historical point, which carries currentStock before overdue folding; a
\* synthetic today point with actual absent and declineOnly = currentStock is
\* appended exactly when the last history date is not today (folding then
\* writes startQty into the first point that has today's day/month label and a
\* declineOnly value).  With fewer than 2 deduplicated samples no historical
\* point is emitted: the output is empty when currentStock <= 0, and otherwise
\* starts with one point dated today with actual = currentStock and
\* declineOnly = startQty, followed by the 26 future points.
C11_HistoryPart ==
  (rendered /\ history.loaded /\ orders.loaded) =>
    \A K \in {KeptSamples} : \A s \in {StartQtyAt(Resolved, EngineStart)} :
      /\ Len(K) >= 2 => HistoryPart(K, s)
      /\ (Len(K) < 2 /\ currentStock <= 0) => chartData = <<>>
      /\ (Len(K) < 2 /\ currentStock > 0) =>
           /\ Len(chartData) = 1 + HorizonSteps
           /\ chartData[1].day = today
           /\ chartData[1].quantity = Num(currentStock)
           /\ chartData[1].forecast = Num(s)

\* two deduplicated samples, the last one before today, and an overdue order
\* folded into the appended today point
C11_Witness ==
  /\ rendered /\ Len(KeptSamples) = 2
  /\ KeptSamples[2].dateObj < today
  /\ chartData[2].forecast = Num(currentStock)
  /\ chartData[3].quantity = Null
  /\ chartData[3].forecast.v > currentStock

\* ------------------------------------------------------------------------
\* C12: for every history that keeps at least 2 deduplicated samples whose
\* quantities are monotonic in date order, the sign of realRate equals the
\* sign of (last quantity - first quantity).
\* ------------------------------------------------------------------------
SignOfInt(v) == IF v < 0 THEN "negative" ELSE IF v > 0 THEN "positive" ELSE "zero"

\* the sign of a rate; NaN has none
SignOfRate(r) ==
  IF r.d = 0 THEN "none"
  ELSE IF r.d > 0 THEN SignOfInt(r.n)
  ELSE SignOfInt(0 - r.n)

Monotonic(K) ==
  \/ \A i \in 1..(Len(K) - 1) : K[i].quantity <= K[i + 1].quantity
  \/ \A i \in 1..(Len(K) - 1) : K[i].quantity >= K[i + 1].quantity

C12_SlopeSign ==
  (rendered /\ history.loaded /\ orders.loaded) =>
    \A K \in {KeptSamples} :
      (Len(K) >= 2 /\ Monotonic(K)) =>
        SignOfRate(realRate) = SignOfInt(K[Len(K)].quantity - K[1].quantity)

\* ------------------------------------------------------------------------
\* C13: the engine is total: the result is well formed, with declineRate,
\* realRate, minRate finite and every actual / declineOnly / withArrivals
\* value absent or a finite number.
\* ------------------------------------------------------------------------
AbsentOrFinite(x) == x.k \in {"null", "num"}

FiniteRate(r) == r.d /= 0

C13_FiniteResult ==
  rendered =>
    /\ FiniteRate(declineRate) /\ FiniteRate(realRate) /\ FiniteRate(minRate)
    /\ \A i \in 1..Len(chartData) :
         /\ AbsentOrFinite(chartData[i].quantity)
         /\ AbsentOrFinite(chartData[i].forecast)
         /\ AbsentOrFinite(chartData[i].onTheWay)

\* ------------------------------------------------------------------------
\* C14: no usable history sample and currentStock = 0.
\* ------------------------------------------------------------------------

\* the entries of the threshold list for the product, and the first of them
ThresholdIdx ==
  {j \in 1..Len(minAmountData.data) : minAmountData.data[j].sku = sku}

FirstThreshold ==
  IF ThresholdIdx = {} THEN Null
  ELSE Num(minAmountData.data[FirstOf(ThresholdIdx)].minAmount)

NoUsableSample == rendered /\ UsableIdx = {} /\ currentStock = 0

\* C14 as claimed: empty sequence, all three rates 0 and no critical point, for
\* every orders list and threshold list
C14_AsClaimed ==
  NoUsableSample =>
    /\ chartData = <<>>
    /\ declineRate = ZeroRate /\ realRate = ZeroRate /\ minRate = ZeroRate
    /\ criticalPoint = 0

\* C14 (amended): with no usable history sample and currentStock = 0 the
\* engine returns an empty point sequence, declineRate = realRate = 0 and no
\* critical point, for every orders list and threshold list; minRate is 0 when
\* the threshold list has no entry for the product and -minAmount/180
\* otherwise.
C14_EmptyResult ==
  NoUsableSample =>
    /\ chartData = <<>>
    /\ declineRate = ZeroRate /\ realRate = ZeroRate
    /\ criticalPoint = 0
    /\ \A t \in {FirstThreshold} :
         /\ t = Null => minRate = ZeroRate
         /\ t /= Null => SameRate(minRate, [n |-> 0 - t.v, d |-> 180])

\* every sample of the product fails date parsing, a threshold and a resolved
\* open order exist
C14_Witness ==
  /\ NoUsableSample
  /\ \E j \in 1..Len(history.data) : history.data[j].sku = sku
  /\ FirstThreshold /= Null /\ ResolvedIdx /= {}
  /\ chartData = <<>>

\* ------------------------------------------------------------------------
\* Vocabulary of the properties on the views
\* ------------------------------------------------------------------------
\* the received texts of the model that are one of the five recognised values
\* once trimmed and lower-cased
ReceivedTexts == {"<ken>", "v", "<check>", "true", "yes", " V ", "TRUE", "Yes"}

MarkedReceived(order) == order.received \in ReceivedTexts

NotMarkedReceived(order) == ~MarkedReceived(order)

\* rows of the orders query not marked received
UnreceivedIdx == {j \in 1..Len(orders.data) : NotMarkedReceived(orders.data[j])}

\* total parsed quantity of the rows of S
RECURSIVE TotalQty(_)
TotalQty(S) ==
  IF S = {} THEN 0
  ELSE LET j == CHOOSE j \in S : TRUE
       IN  ParseQty(orders.data[j].quantity) + TotalQty(S \ {j})

\* on-the-way total of a product: the unreceived rows that carry its sku
OnTheWayTotal(s) == TotalQty({j \in UnreceivedIdx : orders.data[j].dermaSku = s})

\* the rows of the overview for a sku
OverviewRows(s) == {k \in 1..Len(overview) : overview[k].sku = s}

\* the three views have rendered on answered queries
ViewsRendered ==
  /\ history.loaded /\ orders.loaded /\ products.loaded
  /\ rendered /\ openOrdersRendered /\ overviewRendered

\* C15: an order is received exactly when its received text, trimmed and
\* lower-cased, is one of the five recognised values, and the open-orders
\* list, the on-the-way totals and the forecast engine agree on it: the list
\* holds exactly the unreceived rows, the engine keeps exactly the unreceived
\* rows of the product with a resolved date, and each product's on-the-way
\* total is the total of the unreceived rows of its sku
C15_SameClassification ==
  orders.loaded =>
    /\ openOrdersRendered => openOrders = SelectSeq(orders.data, NotMarkedReceived)
    /\ (rendered /\ history.loaded) =>
         Len(skuOrders) =
           Cardinality({j \in UnreceivedIdx :
                          /\ orders.data[j].dermaSku = sku
                          /\ IsDate(ResolveExpected(orders.data[j]))})
    /\ (overviewRendered /\ products.loaded) =>
         \A p \in 1..Len(products.data) :
           \E total \in {OnTheWayTotal(products.data[p].sku)} :
             IF products.data[p].warehouseQty > 0 \/ total > 0
               THEN \E k \in OverviewRows(products.data[p].sku) : overview[k].onTheWay = total
               ELSE OverviewRows(products.data[p].sku) = {}

\* a received row " V " and an open row with an empty received text, seen by
\* the three views: one row in the list, one order in the engine, the open
\* row's quantity on the way
C15_Witness ==
  /\ ViewsRendered
  /\ \E i, j \in 1..Len(orders.data) :
       /\ orders.data[i].received = " V " /\ orders.data[i].dermaSku = sku
       /\ orders.data[j].received = "" /\ orders.data[j].dermaSku = sku
       /\ Len(openOrders) = 1 /\ openOrders[1] = orders.data[j]
       /\ Len(skuOrders) = 1
       /\ \E k \in OverviewRows(sku) :
            overview[k].onTheWay = ParseQty(orders.data[j].quantity) /\ overview[k].onTheWay > 0

\* the rows of the open-orders list that carry the product's sku and whose
\* expected date the view resolves to day d
ViewRowsDue(d) ==
  {i \in 1..Len(openOrders) :
     openOrders[i].dermaSku = sku /\ expectedDates[i].date = <<d>>}

\* the orders of the engine due on day d
EngineOrdersDue(d) == {k \in 1..Len(skuOrders) : skuOrders[k].expectedDate = d}

\* the days some open order of the product is resolved to, by either side
ResolvedDays ==
  {skuOrders[k].expectedDate : k \in 1..Len(skuOrders)}
  \cup {expectedDates[i].date[1] :
          i \in {i \in 1..Len(openOrders) :
                   openOrders[i].dermaSku = sku /\ IsDate(expectedDates[i].date)}}

\* the expected date the specification gives an order: the explicit expected
\* date when the engine's parser reads it, otherwise the order date plus three
\* months when the parser reads that, otherwise none
ExplicitOrEstimated(order) ==
  IF IsDate(parseDate(order.expectedDate)) THEN parseDate(order.expectedDate)
  ELSE IF IsDate(parseDate(order.orderDate))
    THEN <<SetMonthPlus(parseDate(order.orderDate)[1], 3)>>
  ELSE NoDate

\* C16: every open order is resolved to its explicit expected date when that
\* text parses and to its order date plus 3 months otherwise, and the forecast
\* engine and the open-orders view resolve every open order of the product to
\* the same date
C16_SameExpectedDate ==
  (orders.loaded /\ openOrdersRendered) =>
    /\ \A i \in 1..Len(openOrders) :
         expectedDates[i].date = ExplicitOrEstimated(openOrders[i])
    /\ (rendered /\ history.loaded) =>
         \A d \in ResolvedDays :
           Cardinality(EngineOrdersDue(d)) = Cardinality(ViewRowsDue(d))

\* an order of the product that is not marked received and has neither a
\* parseable expected date nor a parseable order date
Unresolvable(order) ==
  /\ order.dermaSku = sku
  /\ NotMarkedReceived(order)
  /\ ~IsDate(parseDate(order.expectedDate))
  /\ ~IsDate(parseDate(order.orderDate))

NotUnresolvable(order) == ~Unresolvable(order)

UnresolvableIdx == {j \in 1..Len(orders.data) : Unresolvable(orders.data[j])}

\* the orders query without the unresolvable rows
OrdersWithoutUnresolvable == Loaded(SelectSeq(orders.data, NotUnresolvable))

\* C17: an open order without parseable expected date and without parseable
\* order date contributes nothing to the forecast (the chart, the rates and
\* the orders of the engine are those computed without it), yet the
\* open-orders list returns it and the on-the-way total of its product counts
\* its quantity
C17_UnresolvableOrder ==
  orders.loaded =>
    /\ (rendered /\ history.loaded) =>
         \E r \in {useProductForecast(sku, currentStock, history,
                                      OrdersWithoutUnresolvable, minAmountData, today)} :
           /\ chartData = r.chartData
           /\ declineRate = r.declineRate
           /\ realRate = r.realRate
           /\ skuOrders = r.skuOrders
    /\ openOrdersRendered =>
         \A j \in UnresolvableIdx : \E i \in 1..Len(openOrders) : openOrders[i] = orders.data[j]
    /\ (overviewRendered /\ products.loaded) =>
         \A k \in OverviewRows(sku) :
           overview[k].onTheWay =
             onTheWayMap(OrdersWithoutUnresolvable.data, sku) + TotalQty(UnresolvableIdx)

\* an unresolvable open order of 30 next to a resolved one: the chart is
\* projected with one engine order, the list shows both rows and the
\* on-the-way total holds both quantities
C17_Witness ==
  /\ ViewsRendered
  /\ Len(orders.data) = 2
  /\ Cardinality(UnresolvableIdx) = 1
  /\ TotalQty(UnresolvableIdx) = 30
  /\ Len(skuOrders) = 1
  /\ Len(chartData) > HorizonSteps
  /\ \A i \in 1..HorizonSteps : chartData[Len(chartData) - HorizonSteps + i].onTheWay /= Null
  /\ Len(openOrders) = 2
  /\ \E k \in OverviewRows(sku) : overview[k].onTheWay = 30 + skuOrders[1].qty

\* C18: every quantity produced by parsing is >= 0: the quantities of the
\* history samples and of the products returned by the fetchers, the order
\* quantities kept by the forecast engine and the on-the-way totals
C18_NonNegativeQuantities ==
  /\ history.loaded => \A i \in 1..Len(history.data) : history.data[i].quantity >= 0
  /\ products.loaded => \A i \in 1..Len(products.data) : products.data[i].warehouseQty >= 0
  /\ \A k \in 1..Len(skuOrders) : skuOrders[k].qty >= 0
  /\ \A k \in 1..Len(overview) : overview[k].onTheWay >= 0

\* rows of the threshold list for a sku
ThresholdRows(s) == {i \in 1..Len(minAmountData.data) : minAmountData.data[i].sku = s}

\* the threshold of the last row for a sku, Null without a row
LastThreshold(s) ==
  IF ThresholdRows(s) = {} THEN Null
  ELSE Num(minAmountData.data[CHOOSE i \in ThresholdRows(s) :
                                \A j \in ThresholdRows(s) : j <= i].minAmount)

\* C19: with several threshold entries for one sku, the forecast engine and
\* the order dialog both use the last entry for that sku
C19_LastEntryWins ==
  minAmountData.loaded =>
    /\ dialogRendered => \A s \in {Sku, OtherSku} : MapGet(minAmountMap, s) = LastThreshold(s)
    /\ rendered => minAmount = LastThreshold(sku)

\* the result of the invocation p run alone on the query results
ResultAlone(p) ==
  useProductForecast(CallProps[p].sku, CallProps[p].currentStock, history, orders,
                     minAmountData, today)

CallsReturnAsAlone ==
  \A p \in 1..Len(CallProps) : calls[p].pc = "done" => calls[p].result = ResultAlone(p)

SharedArraysKept ==
  /\ history' = history
  /\ orders' = orders
  /\ minAmountData' = minAmountData

\* C20: invocations for different products interleaved over the same history,
\* orders and threshold arrays each return the result they return when run
\* alone, again on every later invocation, and no step of any invocation
\* changes those arrays or their elements
C20_InterleavedCalls == [](CallsReturnAsAlone) /\ [][SharedArraysKept]_vars

\* one invocation has returned a projected chart while the other is in flight
\* past its history pipeline, each with samples of its own product taken from
\* the shared array and with the order of its own product
C20_Witness ==
  /\ Len(calls) = 2
  /\ calls[1].pc = "done" /\ Len(calls[1].skuHistory) = 2
  /\ Len(calls[1].result.chartData) > HorizonSteps
  /\ calls[2].pc = "points" /\ Len(calls[2].skuHistory) = 1
  /\ Len(calls[1].skuOrders) = 1 /\ Len(calls[2].skuOrders) = 1

\* the resolved open orders due after the forecast start and within the
\* first i steps
ArrivalsWithin(i) ==
  {j \in ResolvedIdx :
     /\ Resolved[j].expectedDate > EngineStart
     /\ Resolved[j].expectedDate <= EngineStart + StepDays * i}

\* C30: with every open order quantity >= 0, wherever both values are present
\* withArrivals >= declineOnly, and the two are equal at every future point
\* before the first step that contains an arrival after the forecast start
C30_ArrivalsNeverBelow ==
  (rendered /\ history.loaded /\ orders.loaded
     /\ \A j \in OpenIdx : ParseQty(orders.data[j].quantity) >= 0) =>
    /\ \A i \in 1..Len(chartData) :
         (chartData[i].forecast /= Null /\ chartData[i].onTheWay /= Null) =>
           /\ chartData[i].forecast.k = "num"
           /\ chartData[i].onTheWay.k = "num"
           /\ chartData[i].onTheWay.v >= chartData[i].forecast.v
    /\ Projected =>
         \A i \in 1..HorizonSteps :
           (ArrivalsWithin(i) = {} /\ chartData[FutureIdx(i)].onTheWay /= Null) =>
             chartData[FutureIdx(i)].onTheWay = chartData[FutureIdx(i)].forecast

\* the date a day/month/year text denotes, a two-digit year read as 2000+year
DenotedDate(t) == <<DaysFromCivil(IF t.y < 100 THEN 2000 + t.y ELSE t.y, t.m - 1, t.d)>>

\* what a parser has to return for the text
ExpectedParse(t) == IF t.kind \in {"dmy", "dashed"} THEN DenotedDate(t) ELSE NoDate

\* C22: each of the three date parsers accepts a day/month/year text with any
\* of the separators "/", "-" and ".", reads a two-digit year as 2000+year and
\* returns absent for a text it cannot parse
C22_ParsersAcceptDmy ==
  /\ "engine" \in parsedBy => engineDate = ExpectedParse(dateText)
  /\ "normalizer" \in parsedBy => normalizerDate = ExpectedParse(dateText)
  /\ "view" \in parsedBy => viewDate = ExpectedParse(dateText)

\* C29: for a chart of at least 3 points, after the initial reset and any
\* sequence of zoomIn, zoomOut, resetZoom, panLeft, panRight and wheel events
\* the zoom window lies within the chart and shows at least three points
C29_ZoomWindow ==
  (zoomMounted /\ chartLength >= 3) =>
    /\ 0 <= zoomRange.start
    /\ zoomRange.end <= chartLength - 1
    /\ zoomRange.end - zoomRange.start >= 2

\* ------------------------------------------------------------------------
\* Row identity of the orders
\* ------------------------------------------------------------------------
\* the cached order sits in the row of the orders sheet that its rowIndex
\* names (row 1 is the header row, row r is ordersSheet[r - 1])
AtItsRow(order) ==
  /\ order.rowIndex - 1 \in 1..Len(ordersSheet)
  /\ ordersSheet[order.rowIndex - 1].id = order.id

\* C21: every order returned by fetchOrders carries as rowIndex the 1-based
\* sheet row it was read from, also when earlier rows are empty or dropped by
\* the presence filter
C21_RowIndexIsSheetRow ==
  \A i \in 1..Len(ordersCache.data) : AtItsRow(ordersCache.data[i])


\* ------------------------------------------------------------------------
\* The status toggle
\* ------------------------------------------------------------------------
\* the cached orders that carry the rowIndex
CachedAt(rowIndex) ==
  {i \in 1..Len(ordersCache.data) : ordersCache.data[i].rowIndex = rowIndex}

\* C23: the toggle is optimistic: while the mutation is pending the cached
\* order already shows the received value that was asked for
C23_OptimisticToggle ==
  statusMutation.status = "pending" =>
    \A i \in CachedAt(statusMutation.rowIndex) :
      IsReceived(ordersCache.data[i]) <=> statusMutation.received


\* the orders of the next fetch that are read from the row
NextFetchOf(rowIndex) ==
  {i \in 1..Len(Fetched(ordersSheet)) :
     /\ rowIndex - 1 \in 1..Len(ordersSheet)
     /\ Fetched(ordersSheet)[i].id = ordersSheet[rowIndex - 1].id}

\* the three filters take the order as received
ReceivedEverywhere(order) ==
  /\ ~OpenOrdersKeeps(order)
  /\ IsReceived(order)
  /\ ~OverviewCounts(order)

\* the three filters take the order as open (the overview counts it when it
\* has a sku)
OpenEverywhere(order) ==
  /\ OpenOrdersKeeps(order)
  /\ ~IsReceived(order)
  /\ OverviewCounts(order) <=> order.dermaSku /= ""

\* C24: once updateOrderStatus(rowIndex, true) has succeeded, the order of
\* that row is, on the next fetch, received for the open-orders list, the
\* forecast engine and the on-the-way totals; after
\* updateOrderStatus(rowIndex, false) it is open for all three
C24_WrittenStatusRecognised ==
  lastRun.action = "updateOrderStatus" =>
    \A i \in NextFetchOf(lastRun.rowIndex) :
      IF lastRun.received
        THEN ReceivedEverywhere(Fetched(ordersSheet)[i])
        ELSE OpenEverywhere(Fetched(ordersSheet)[i])

\* the open order P has been marked received, or the received order Q has
\* been reopened
C24_Witness ==
  /\ lastRun.action = "updateOrderStatus"
  /\ \E i \in NextFetchOf(lastRun.rowIndex) :
       \/ lastRun.received /\ Fetched(ordersSheet)[i].id = 1
       \/ ~lastRun.received /\ Fetched(ordersSheet)[i].id = 2


\* ------------------------------------------------------------------------
\* Row positions under the write actions
\* ------------------------------------------------------------------------
\* every row that holds an order keeps its position
RowsStay ==
  \A r \in 1..Len(ordersSheet) :
    ordersSheet[r].id /= 0 =>
      r <= Len(ordersSheet') /\ ordersSheet'[r].id = ordersSheet[r].id

\* one row is added below the rows of the sheet
RowAppended ==
  /\ Len(ordersSheet') = Len(ordersSheet) + 1
  /\ SubSeq(ordersSheet', 1, Len(ordersSheet)) = ordersSheet

\* the received cell or the log cell of one row is set
CellSet ==
  /\ Len(ordersSheet') = Len(ordersSheet)
  /\ \E r \in 1..Len(ordersSheet) :
       /\ \A q \in 1..Len(ordersSheet) : q /= r => ordersSheet'[q] = ordersSheet[q]
       /\ \/ ordersSheet'[r] = [ordersSheet[r] EXCEPT !.received = ordersSheet'[r].received]
          \/ ordersSheet'[r] = [ordersSheet[r] EXCEPT !.log = ordersSheet'[r].log]

\* C25: a write action of the Apps Script appends a row below the orders or
\* sets one cell, no order row changes its position, and every order cached
\* by an earlier fetch is still in the row its rowIndex names
C25_RowsKeepTheirPlace ==
  /\ [][RowsStay /\ (ordersSheet' = ordersSheet \/ RowAppended \/ CellSet)]_vars
  /\ [](\A i \in 1..Len(ordersCache.data) :
          /\ ordersCache.data[i].rowIndex - 1 \in 1..Len(ordersSheet)
          /\ ordersSheet[ordersCache.data[i].rowIndex - 1].id = ordersCache.data[i].id)

\* after the fetch an order has been added and a comment written, the orders
\* cached before are those of the sheet without the new row
C25_Witness ==
  /\ ordersCache.loaded
  /\ Len(ordersCache.data) >= 1
  /\ lastRun.action = "updateOrderComments"
  /\ ordersSheet[Len(ordersSheet)].id >= 5
  /\ \A i \in 1..Len(ordersCache.data) : ordersCache.data[i].id < 5
  /\ \E r \in 1..Len(ordersSheet) : ordersSheet[r].log /= <<>>


\* ------------------------------------------------------------------------
\* The comment log
\* ------------------------------------------------------------------------
\* the text holds the comment as written
Contains(cell, comment) ==
  \E i \in 0..(Len(cell) - Len(comment)) :
    SubSeq(cell, i + 1, i + Len(comment)) = comment

\* C26: when two updateOrderComments requests for the same row have both
\* completed, however their reads and writes were interleaved, the log cell
\* of the row holds both comments
C26_NoCommentLost ==
  \A j, k \in 1..Len(executions) :
    ( /\ j /= k
      /\ executions[j].pc = "done" /\ executions[k].pc = "done"
      /\ executions[j].data.rowIndex = executions[k].data.rowIndex )
    => /\ Contains(LogCell(ordersSheet, executions[j].data.rowIndex),
                   NewComment(executions[j].data))
       /\ Contains(LogCell(ordersSheet, executions[k].data.rowIndex),
                   NewComment(executions[k].data))


\* the executions target one row and ran one after the other: each found in
\* the cell what the one before it had written
CalledInTurn ==
  \A k \in 1..Len(executions) :
    /\ executions[k].pc = "done"
    /\ executions[k].data.rowIndex = executions[1].data.rowIndex
    /\ executions[k].existing =
         IF k = 1 THEN <<>>
         ELSE TrimText(FinalValue(executions[k - 1].existing,
                                  NewComment(executions[k - 1].data)))

\* the date-time and the text that handleAddComment put in the comment
Submitted(comment) ==
  [date |-> <<comment[1]>>, text |-> SubSeq(comment, 4, Len(comment))]

\* C27: after n calls of updateOrderComments in turn on a row with an empty
\* log cell, with the strings built by handleAddComment, parseCommentLog of
\* the fetched cell returns the n entries in call order, each with the date
\* and the text that was submitted
C27_LogRoundTrip ==
  (executions /= <<>> /\ CalledInTurn) =>
    parseCommentLog(TrimText(LogCell(ordersSheet, executions[1].data.rowIndex)))
      = [k \in 1..Len(executions) |-> Submitted(NewComment(executions[k].data))]


\* ------------------------------------------------------------------------
\* syncMissingProducts
\* ------------------------------------------------------------------------
\* the trimmed, non-empty derma skus of the orders sheet
OrderSkus == {TrimCell(ordersSheet[r].dermaSku) : r \in 1..Len(ordersSheet)} \ {""}

\* the trimmed skus of product rows
ProductSkus(rows) == {TrimCell(rows[r].sku) : r \in 1..Len(rows)}

====
